---- MODULE Spec2Model ----
(***************************************************************************)
(* A state-machine model of the Iskandar Community backend: the document   *)
(* store collections (users, posts, comments, categories, files,           *)
(* video_calls, doodle_polls), the REST handlers that read and write them, *)
(* and the in-memory state of the socket.io server (online_users,          *)
(* active_video_calls, last_chat_notification).                            *)
(*                                                                         *)
(* Conventions.  An ObjectId is a positive integer, allocated from the     *)
(* counter oid and never reused.  A string that ObjectId.is_valid rejects  *)
(* is the integer BadId.  Python's None is NoId for an identifier, NoTime  *)
(* for a datetime and NoStr for a string.  Time is an integer clock `now`  *)
(* (minutes in the presence model, hours in the chat model).  A handler is *)
(* one atomic action; its HTTP status and arguments are left in resp.      *)
(***************************************************************************)
EXTENDS Integers, Sequences, FiniteSets, TLC

VARIABLES
    users,          \* collection "users":        _id -> document
    tokens,         \* the JWTs issued so far (their payloads)
    posts,          \* collection "posts":        _id -> document
    comments,       \* collection "comments":     _id -> document
    categories,     \* collection "categories":   _id -> document
    files,          \* collection "files":        _id -> document
    cloud,          \* number of objects uploaded to the storage provider
    video_calls,    \* collection "video_calls":  _id -> document
    doodle_polls,   \* collection "doodle_polls": _id -> document
    oid,            \* the last ObjectId allocated
    now,            \* datetime.utcnow()
    resp,           \* the last request or event and its outcome
    online_users,   \* main.online_users, in insertion order
    active_video_calls, \* main.active_video_calls, in insertion order
    emitted,        \* what the last socket event emitted
    last_chat_notification, \* main.last_chat_notification
    prev_message_at, \* history: when the previous send_message event arrived
    last_beat,      \* history: user _id -> time of the user's last login or heartbeat
    scheduler,      \* services.scheduler_service: the SchedulerService and its task
    procs,          \* the requests and events suspended at a database await
    outbox          \* the e-mails handed to the e-mail service so far

vars == <<users, tokens, posts, comments, categories, files, cloud, video_calls,
          doodle_polls, oid, now, resp, online_users, active_video_calls,
          emitted, last_chat_notification, prev_message_at, last_beat,
          scheduler, procs, outbox>>

dbVars == <<users, posts, comments, categories, files, cloud, video_calls, doodle_polls>>
socketVars == <<online_users, active_video_calls, emitted>>
chatVars == <<last_chat_notification, prev_message_at>>
taskVars == <<scheduler, procs, outbox>>

(***************************************************************************)
(* Bounds of the model.                                                    *)
(***************************************************************************)
MaxUserOid == 2
MaxTokens == 2
MaxTime == 7

(***************************************************************************)
(* Encodings of None and of a malformed identifier.                        *)
(***************************************************************************)
BadId == 0
NoId == -1
NoTime == -1
NoStr == "None"

ObjectId_is_valid(x) == x >= 1

Names == {"Admin User", "ana"}
Emails == {"admin@iskandar.com", "ana@x.org"}
Passwords == {"admin123"}
WrongPassword == "wrong"
Roles == {"admin", "normal"}

NoToken == [user_id |-> NoId, email |-> NoStr, name |-> NoStr, role |-> NoStr, is_active |-> FALSE]

\* out: the identifiers a query returns; count: the number an operation reports
ResponseOut(op, status, tok, id, out, count) ==
    [op |-> op, status |-> status, tok |-> tok, id |-> id, out |-> out, count |-> count]

Response(op, status, tok, id) == ResponseOut(op, status, tok, id, {}, 0)

(***************************************************************************)
(* The document store: motor's insert_one, update_one ($set), delete_one   *)
(* and find_one on a collection held as a function from _id to document.   *)
(***************************************************************************)
insert_one(coll, id, doc) == [i \in DOMAIN coll \cup {id} |-> IF i = id THEN doc ELSE coll[i]]

delete_one(coll, id) == [i \in DOMAIN coll \ {id} |-> coll[i]]

\* find_one returns the first match in natural (insertion) order: the least
\* _id among hits, the _ids of the documents that match the filter
find_one(hits) ==
    IF hits = {} THEN NoId ELSE CHOOSE i \in hits : \A j \in hits : i <= j

(***************************************************************************)
(* app/auth.py                                                             *)
(***************************************************************************)
create_user_token(id, user) ==
    [user_id |-> id, email |-> user.email, name |-> user.name, role |-> user.role,
     is_active |-> user.is_active]

\* the user document of the token exists and is active, else 401
get_current_user_no_active_check(tok) ==
    IF tok.user_id \in DOMAIN users THEN 200 ELSE 401

get_current_user(tok) ==
    IF tok.user_id \in DOMAIN users /\ users[tok.user_id].is_active THEN 200 ELSE 401

get_current_active_user(tok) ==
    IF get_current_user(tok) # 200 THEN get_current_user(tok)
    ELSE IF ~tok.is_active THEN 400 ELSE 200

get_current_admin_user(tok) ==
    IF get_current_active_user(tok) # 200 THEN get_current_active_user(tok)
    ELSE IF tok.role # "admin" THEN 403 ELSE 200

authenticate_user(name, password) ==
    LET id == find_one({i \in DOMAIN users : users[i].name = name})
    IN  IF id = NoId THEN NoId
        ELSE IF users[id].password_hash # password THEN NoId
        ELSE IF ~users[id].is_active THEN NoId
        ELSE id

(***************************************************************************)
(* app/routers/auth.py                                                     *)
(***************************************************************************)
othersU == <<posts, comments, categories, files, cloud, video_calls, doodle_polls,
             socketVars, chatVars, taskVars>>

login(name, password) ==
    LET id == authenticate_user(name, password)
    IN  /\ IF id = NoId
           THEN /\ resp' = Response("login", 401, NoToken, NoId)
                /\ UNCHANGED <<users, tokens, last_beat>>
           ELSE /\ Cardinality(tokens \cup {create_user_token(id, users[id])}) <= MaxTokens
                /\ users' = [users EXCEPT ![id].last_seen = now]
                /\ tokens' = tokens \cup {create_user_token(id, users[id])}
                /\ last_beat' = insert_one(last_beat, id, now)
                /\ resp' = Response("login", 200, create_user_token(id, users[id]), id)
        /\ UNCHANGED <<oid, now, othersU>>

heartbeat(tok) ==
    /\ IF get_current_active_user(tok) # 200
       THEN /\ resp' = Response("heartbeat", get_current_active_user(tok), tok, NoId)
            /\ UNCHANGED <<users, last_beat>>
       ELSE /\ users' = [users EXCEPT ![tok.user_id].last_seen = now]
            /\ last_beat' = insert_one(last_beat, tok.user_id, now)
            /\ resp' = Response("heartbeat", 200, tok, NoId)
    /\ UNCHANGED <<tokens, oid, now, othersU>>

\* profile_data.name is NoStr when the request leaves the name out
update_current_user_profile(tok, name) ==
    /\ IF get_current_active_user(tok) # 200
       THEN /\ resp' = Response("update_current_user_profile", get_current_active_user(tok), tok, NoId)
            /\ UNCHANGED users
       ELSE /\ users' = IF name = NoStr THEN users
                        ELSE [users EXCEPT ![tok.user_id].name = name]
            /\ resp' = Response("update_current_user_profile", 200, tok, NoId)
    /\ UNCHANGED <<tokens, oid, now, last_beat, othersU>>

create_user(tok, email, name, role, password) ==
    /\ oid < MaxUserOid
    /\ IF get_current_admin_user(tok) # 200
       THEN /\ resp' = Response("create_user", get_current_admin_user(tok), tok, NoId)
            /\ UNCHANGED <<users, oid>>
       ELSE IF find_one({i \in DOMAIN users : users[i].email = email}) # NoId
       THEN /\ resp' = Response("create_user", 400, tok, NoId)
            /\ UNCHANGED <<users, oid>>
       ELSE IF find_one({i \in DOMAIN users : users[i].name = name}) # NoId
       THEN /\ resp' = Response("create_user", 400, tok, NoId)
            /\ UNCHANGED <<users, oid>>
       ELSE /\ users' = insert_one(users, oid + 1,
                            [email |-> email, name |-> name, password_hash |-> password,
                             role |-> role, is_active |-> TRUE, last_seen |-> NoTime,
                             comment_replies |-> TRUE])
            /\ oid' = oid + 1
            /\ resp' = Response("create_user", 200, tok, oid + 1)
    /\ UNCHANGED <<tokens, now, last_beat, othersU>>

\* user_data: name, email (NoStr when left out), is_active ("None" when left out)
\* (the requests drawn set exactly one of the three)
UserUpdates ==
    {d \in [name : Names \cup {NoStr}, email : Emails \cup {NoStr},
            is_active : {"None", "true", "false"}] :
        Cardinality({f \in {"name", "email", "is_active"} : d[f] # "None"}) = 1}

apply_user_update(u, d) ==
    [u EXCEPT !.name = IF d.name = NoStr THEN @ ELSE d.name,
              !.email = IF d.email = NoStr THEN @ ELSE d.email,
              !.is_active = IF d.is_active = "None" THEN @ ELSE (d.is_active = "true")]

update_user(tok, user_id, d) ==
    /\ IF get_current_admin_user(tok) # 200
       THEN /\ resp' = Response("update_user", get_current_admin_user(tok), tok, user_id)
            /\ UNCHANGED users
       ELSE IF ~ObjectId_is_valid(user_id)
       THEN /\ resp' = Response("update_user", 400, tok, user_id)
            /\ UNCHANGED users
       ELSE IF /\ d.email # NoStr
               /\ \E i \in DOMAIN users : users[i].email = d.email /\ i # user_id
       THEN /\ resp' = Response("update_user", 400, tok, user_id)
            /\ UNCHANGED users
       ELSE IF /\ d.name # NoStr
               /\ \E i \in DOMAIN users : users[i].name = d.name /\ i # user_id
       THEN /\ resp' = Response("update_user", 400, tok, user_id)
            /\ UNCHANGED users
       ELSE IF user_id \notin DOMAIN users
       THEN /\ resp' = Response("update_user", 404, tok, user_id)
            /\ UNCHANGED users
       ELSE /\ users' = [users EXCEPT ![user_id] = apply_user_update(@, d)]
            /\ resp' = Response("update_user", 200, tok, user_id)
    /\ UNCHANGED <<tokens, oid, now, last_beat, othersU>>

delete_user(tok, user_id) ==
    /\ IF get_current_admin_user(tok) # 200
       THEN /\ resp' = Response("delete_user", get_current_admin_user(tok), tok, user_id)
            /\ UNCHANGED users
       ELSE IF ~ObjectId_is_valid(user_id)
       THEN /\ resp' = Response("delete_user", 400, tok, user_id)
            /\ UNCHANGED users
       ELSE IF user_id = tok.user_id
       THEN /\ resp' = Response("delete_user", 400, tok, user_id)
            /\ UNCHANGED users
       ELSE IF user_id \notin DOMAIN users
       THEN /\ resp' = Response("delete_user", 404, tok, user_id)
            /\ UNCHANGED users
       ELSE /\ users' = delete_one(users, user_id)
            /\ resp' = Response("delete_user", 200, tok, user_id)
    /\ UNCHANGED <<tokens, oid, now, last_beat, othersU>>

toggle_user_status(tok, user_id) ==
    /\ IF get_current_admin_user(tok) # 200
       THEN /\ resp' = Response("toggle_user_status", get_current_admin_user(tok), tok, user_id)
            /\ UNCHANGED users
       ELSE IF ~ObjectId_is_valid(user_id)
       THEN /\ resp' = Response("toggle_user_status", 400, tok, user_id)
            /\ UNCHANGED users
       ELSE IF user_id = tok.user_id
       THEN /\ resp' = Response("toggle_user_status", 400, tok, user_id)
            /\ UNCHANGED users
       ELSE IF user_id \notin DOMAIN users
       THEN /\ resp' = Response("toggle_user_status", 404, tok, user_id)
            /\ UNCHANGED users
       ELSE /\ users' = [users EXCEPT ![user_id].is_active = ~@]
            /\ resp' = Response("toggle_user_status", 200, tok, user_id)
    /\ UNCHANGED <<tokens, oid, now, last_beat, othersU>>

(***************************************************************************)
(* app/utils/presence.py and its endpoints in app/routers/auth.py.         *)
(* The clock counts minutes here.                                          *)
(***************************************************************************)
ONLINE_THRESHOLD_MINUTES == 5

\* the query {"last_seen": {"$gte": threshold}, "is_active": True}
online_query(threshold) ==
    {i \in DOMAIN users :
        users[i].last_seen # NoTime /\ users[i].last_seen >= threshold /\ users[i].is_active}

get_online_users == online_query(now - ONLINE_THRESHOLD_MINUTES)

get_currently_online_users(tok) ==
    /\ IF get_current_active_user(tok) # 200
       THEN resp' = Response("get_online_users", get_current_active_user(tok), tok, NoId)
       ELSE resp' = ResponseOut("get_online_users", 200, tok, NoId,
                                get_online_users, Cardinality(get_online_users))
    /\ UNCHANGED <<users, tokens, oid, now, last_beat, othersU>>

\* The filter is a dict literal with the key "last_seen" twice: the second
\* entry, {"$ne": None}, replaces the first, {"$lt": threshold}.
cleanup_filter(threshold) == {i \in DOMAIN users : users[i].last_seen # NoTime}

\* update_many(filter, {"$unset": {"last_seen": ""}}); returns modified_count
cleanup_offline_users_endpoint(tok) ==
    /\ IF get_current_admin_user(tok) # 200
       THEN /\ resp' = Response("cleanup_offline_users", get_current_admin_user(tok), tok, NoId)
            /\ UNCHANGED users
       ELSE LET hit == cleanup_filter(now - ONLINE_THRESHOLD_MINUTES)
            IN  /\ users' = [i \in DOMAIN users |->
                               IF i \in hit THEN [users[i] EXCEPT !.last_seen = NoTime]
                               ELSE users[i]]
                /\ resp' = ResponseOut("cleanup_offline_users", 200, tok, NoId,
                                       hit, Cardinality(hit))
    /\ UNCHANGED <<tokens, oid, now, last_beat, othersU>>

\* the passage of one unit of time
Tick ==
    /\ now < MaxTime
    /\ now' = now + 1
    /\ resp' = Response("tick", 200, NoToken, NoId)
    /\ UNCHANGED <<users, tokens, oid, last_beat, othersU>>

(***************************************************************************)
(* app/routers/posts.py and app/routers/comments.py.                       *)
(* A handler without a Depends(get_current_*_user) parameter never looks   *)
(* at the credentials of the request: its tok argument is only recorded.   *)
(***************************************************************************)
MaxDocs == 2

Titles == {"t1", "t2"}
Authors == {"ana"}

othersP == <<users, tokens, categories, files, cloud, video_calls, doodle_polls,
             now, last_beat, socketVars, chatVars, taskVars>>

\* room for one more post or comment within the bound
CanAllocate ==
    oid - Cardinality(DOMAIN users) - Cardinality(DOMAIN categories) < MaxDocs

\* "Category not found or inactive"
category_usable(category_id) ==
    category_id \in DOMAIN categories /\ categories[category_id].is_active

\* current_user.role != "admin" and post.get("author_name") != current_user.name
not_author_nor_admin(tok, post) == tok.role # "admin" /\ post.author_name # tok.name

\* post_data: PostCreate (category_id NoId when left out)
PostCreates(CategoryIds) ==
    [title : Titles, author_name : Authors, category_id : CategoryIds \cup {NoId},
     is_published : BOOLEAN]

create_post(tok, d) ==
    /\ CanAllocate
    /\ IF d.category_id # NoId /\ ~ObjectId_is_valid(d.category_id)
       THEN /\ resp' = Response("create_post", 400, tok, NoId)
            /\ UNCHANGED <<posts, oid>>
       ELSE IF d.category_id # NoId /\ ~category_usable(d.category_id)
       THEN /\ resp' = Response("create_post", 400, tok, NoId)
            /\ UNCHANGED <<posts, oid>>
       ELSE /\ posts' = insert_one(posts, oid + 1,
                            [title |-> d.title, author_name |-> d.author_name,
                             category_id |-> d.category_id,
                             is_published |-> d.is_published,
                             published_at |-> IF d.is_published THEN now ELSE NoTime])
            /\ oid' = oid + 1
            /\ resp' = Response("create_post", 201, tok, oid + 1)
    /\ UNCHANGED <<comments, othersP>>

\* post_data: PostUpdate; a field left out is NoStr, NoId or "None"
PostUpdates(CategoryIds) ==
    {d \in [title : Titles \cup {NoStr}, category_id : CategoryIds \cup {NoId},
            is_published : {"None", "true", "false"}] :
        Cardinality({f \in {"title", "is_published"} : d[f] # "None"}
                    \cup {f \in {"category_id"} : d[f] # NoId}) <= 1}

apply_post_update(post, d, set_published_at) ==
    [post EXCEPT !.title = IF d.title = NoStr THEN @ ELSE d.title,
                 !.category_id = IF d.category_id = NoId THEN @ ELSE d.category_id,
                 !.is_published = IF d.is_published = "None" THEN @
                                  ELSE (d.is_published = "true"),
                 !.published_at = IF set_published_at THEN now ELSE @]

update_post(tok, post_id, d) ==
    /\ IF ~ObjectId_is_valid(post_id)
       THEN /\ resp' = Response("update_post", 400, tok, post_id)
            /\ UNCHANGED posts
       ELSE IF d.category_id # NoId /\ ~ObjectId_is_valid(d.category_id)
       THEN /\ resp' = Response("update_post", 400, tok, post_id)
            /\ UNCHANGED posts
       ELSE IF d.category_id # NoId /\ ~category_usable(d.category_id)
       THEN /\ resp' = Response("update_post", 400, tok, post_id)
            /\ UNCHANGED posts
       \* existing_post.get("published_at") on None: AttributeError, answered 500
       ELSE IF d.is_published = "true" /\ post_id \notin DOMAIN posts
       THEN /\ resp' = Response("update_post", 500, tok, post_id)
            /\ UNCHANGED posts
       ELSE IF post_id \notin DOMAIN posts
       THEN /\ resp' = Response("update_post", 404, tok, post_id)
            /\ UNCHANGED posts
       ELSE /\ posts' = [posts EXCEPT ![post_id] =
                            apply_post_update(@, d,
                                d.is_published = "true" /\ @.published_at = NoTime)]
            /\ resp' = Response("update_post", 200, tok, post_id)
    /\ UNCHANGED <<comments, oid, othersP>>

\* delete_many({"post_id": ObjectId(post_id)})
comments_of_post(post_id) == {c \in DOMAIN comments : comments[c].post_id = post_id}

delete_comments_of_post_none(post_id) == comments

delete_comments_of_post(post_id) ==
    [c \in DOMAIN comments \ comments_of_post(post_id) |-> comments[c]]

delete_post(tok, post_id) ==
    /\ IF get_current_active_user(tok) # 200
       THEN /\ resp' = Response("delete_post", get_current_active_user(tok), tok, post_id)
            /\ UNCHANGED <<posts, comments>>
       ELSE IF ~ObjectId_is_valid(post_id)
       THEN /\ resp' = Response("delete_post", 400, tok, post_id)
            /\ UNCHANGED <<posts, comments>>
       ELSE IF post_id \notin DOMAIN posts
       THEN /\ resp' = Response("delete_post", 404, tok, post_id)
            /\ UNCHANGED <<posts, comments>>
       ELSE IF not_author_nor_admin(tok, posts[post_id])
       THEN /\ resp' = Response("delete_post", 403, tok, post_id)
            /\ UNCHANGED <<posts, comments>>
       ELSE /\ posts' = delete_one(posts, post_id)
            /\ comments' = delete_comments_of_post(post_id)
            /\ resp' = ResponseOut("delete_post", 204, tok, post_id,
                                   comments_of_post(post_id),
                                   Cardinality(comments_of_post(post_id)))
    /\ UNCHANGED <<oid, othersP>>

publish_post(tok, post_id, is_published) ==
    /\ IF get_current_active_user(tok) # 200
       THEN /\ resp' = Response("publish_post", get_current_active_user(tok), tok, post_id)
            /\ UNCHANGED posts
       ELSE IF ~ObjectId_is_valid(post_id)
       THEN /\ resp' = Response("publish_post", 400, tok, post_id)
            /\ UNCHANGED posts
       ELSE IF post_id \notin DOMAIN posts
       THEN /\ resp' = Response("publish_post", 404, tok, post_id)
            /\ UNCHANGED posts
       ELSE IF not_author_nor_admin(tok, posts[post_id])
       THEN /\ resp' = Response("publish_post", 403, tok, post_id)
            /\ UNCHANGED posts
       ELSE /\ posts' = [posts EXCEPT ![post_id].is_published = is_published,
                                      ![post_id].published_at =
                                          IF is_published /\ @ = NoTime THEN now ELSE @]
            /\ resp' = Response("publish_post", 200, tok, post_id)
    /\ UNCHANGED <<comments, oid, othersP>>

\* get_all_posts: the published posts (of the category, when one is given);
\* the listing is ordered by published_at, newest first
get_all_posts(category_id) ==
    /\ IF category_id # NoId /\ ~ObjectId_is_valid(category_id)
       THEN resp' = Response("get_all_posts", 400, NoToken, category_id)
       ELSE LET found == {p \in DOMAIN posts :
                             /\ posts[p].is_published
                             /\ category_id # NoId => posts[p].category_id = category_id}
            IN  resp' = ResponseOut("get_all_posts", 200, NoToken, category_id,
                                    found, Cardinality(found))
    /\ UNCHANGED <<posts, comments, oid, othersP>>

\* get_post answering a draft to whoever is authenticated
get_post_shows_drafts(tok, post_id) ==
    /\ resp' = Response("get_post",
                        IF get_current_active_user(tok) # 200
                        THEN get_current_active_user(tok)
                        ELSE IF ~ObjectId_is_valid(post_id) THEN 400
                        ELSE IF post_id \notin DOMAIN posts THEN 404
                        ELSE 200,
                        tok, post_id)
    /\ UNCHANGED <<posts, comments, oid, othersP>>

get_post(tok, post_id) ==
    /\ resp' = Response("get_post",
                        IF get_current_active_user(tok) # 200
                        THEN get_current_active_user(tok)
                        ELSE IF ~ObjectId_is_valid(post_id) THEN 400
                        ELSE IF post_id \notin DOMAIN posts THEN 404
                        ELSE IF /\ ~posts[post_id].is_published
                                /\ not_author_nor_admin(tok, posts[post_id]) THEN 404
                        ELSE 200,
                        tok, post_id)
    /\ UNCHANGED <<posts, comments, oid, othersP>>

\* everything a comment request leaves alone but the mail that goes out
othersM == <<users, tokens, categories, files, cloud, video_calls, doodle_polls,
             now, last_beat, socketVars, chatVars, scheduler, procs>>

\* email_prefs.get("comment_replies", True) on parent_user.get("email_preferences", {})
comment_replies(user) ==
    IF "comment_replies" \in DOMAIN user THEN user.comment_replies ELSE TRUE

\* the query {"email_preferences.new_comments": True, "is_active": True}
new_comments(user) ==
    /\ user.is_active
    /\ "new_comments" \in DOMAIN user
    /\ user.new_comments

\* parent_comment.get("author_email"), or else the email of the user found by
\* the parent's author_name; NoStr when neither gives one
parent_author_email(parent_comment) ==
    IF parent_comment.author_email # NoStr THEN parent_comment.author_email
    ELSE LET u == find_one({i \in DOMAIN users : users[i].name = parent_comment.author_name})
         IN  IF u # NoId /\ users[u].email # NoStr THEN users[u].email ELSE NoStr

\* the address without the check that the reply is not the author's own
reply_recipient_to_self(parent_comment, reply_comment) ==
    LET email == parent_author_email(parent_comment)
        parent_user == find_one({i \in DOMAIN users : users[i].email = email})
    IN  IF email = NoStr THEN NoStr
        ELSE IF parent_user = NoId THEN NoStr
        ELSE IF ~comment_replies(users[parent_user]) THEN NoStr
        ELSE email

\* send_comment_reply_notification: the address the reply email is sent to,
\* NoStr when the function returns before send_email
reply_recipient(parent_comment, reply_comment) ==
    LET email == parent_author_email(parent_comment)
        parent_user == find_one({i \in DOMAIN users : users[i].email = email})
    IN  IF email = NoStr THEN NoStr
        ELSE IF parent_user = NoId THEN NoStr
        ELSE IF ~comment_replies(users[parent_user]) THEN NoStr
        ELSE IF email = reply_comment.author_email THEN NoStr
        ELSE email

\* send_comment_reply_notification: the emails attempted for a reply
reply_mail(parent_comment, reply_id, reply_comment) ==
    LET to == reply_recipient(parent_comment, reply_comment)
    IN  IF to = NoStr THEN {}
        ELSE {[kind |-> "comment_reply", to |-> to, comment |-> reply_id]}

\* send_new_comment_notification: one email per subscribed user but the author
new_comment_mail(comment_id, comment) ==
    {[kind |-> "new_comment", to |-> users[i].email, comment |-> comment_id] :
        i \in {j \in DOMAIN users : /\ new_comments(users[j])
                                    /\ users[j].email # NoStr
                                    /\ users[j].email # comment.author_email}}

\* comment_data: CommentCreate (parent_id NoId and author_email NoStr when left
\* out); the two background tasks run once the response is made
create_comment(tok, post_id, author_name, author_email, parent_id) ==
    /\ IF ~ObjectId_is_valid(post_id)
       THEN /\ resp' = Response("create_comment", 400, tok, post_id)
            /\ UNCHANGED <<comments, oid, outbox>>
       ELSE IF post_id \notin DOMAIN posts
       THEN /\ resp' = Response("create_comment", 404, tok, post_id)
            /\ UNCHANGED <<comments, oid, outbox>>
       ELSE IF parent_id # NoId /\ ~ObjectId_is_valid(parent_id)
       THEN /\ resp' = Response("create_comment", 400, tok, post_id)
            /\ UNCHANGED <<comments, oid, outbox>>
       ELSE IF parent_id # NoId /\ parent_id \notin DOMAIN comments
       THEN /\ resp' = Response("create_comment", 404, tok, post_id)
            /\ UNCHANGED <<comments, oid, outbox>>
       ELSE IF parent_id # NoId /\ comments[parent_id].post_id # post_id
       THEN /\ resp' = Response("create_comment", 400, tok, post_id)
            /\ UNCHANGED <<comments, oid, outbox>>
       ELSE LET created_comment == [post_id |-> post_id, parent_id |-> parent_id,
                                    author_name |-> author_name,
                                    author_email |-> author_email,
                                    created_at |-> now]
                inserted == insert_one(comments, oid + 1, created_comment)
            IN  /\ oid' = oid + 1
                /\ resp' = Response("create_comment", 201, tok, post_id)
                /\ IF parent_id = NoId
                   THEN /\ comments' = inserted
                        /\ outbox' = outbox \cup new_comment_mail(oid + 1, created_comment)
                   ELSE /\ comments' =
                               IF comments[parent_id].author_email = NoStr
                               THEN [inserted EXCEPT ![parent_id].author_email =
                                        parent_author_email(comments[parent_id])]
                               ELSE inserted
                        /\ outbox' = outbox
                               \cup reply_mail(comments[parent_id], oid + 1, created_comment)
                               \cup new_comment_mail(oid + 1, created_comment)
    /\ UNCHANGED <<posts, othersM>>

\* delete_comment: only the addressed document is deleted
delete_comment(tok, comment_id) ==
    /\ IF get_current_active_user(tok) # 200
       THEN /\ resp' = Response("delete_comment", get_current_active_user(tok), tok, comment_id)
            /\ UNCHANGED comments
       ELSE IF ~ObjectId_is_valid(comment_id)
       THEN /\ resp' = Response("delete_comment", 400, tok, comment_id)
            /\ UNCHANGED comments
       ELSE IF comment_id \notin DOMAIN comments
       THEN /\ resp' = Response("delete_comment", 404, tok, comment_id)
            /\ UNCHANGED comments
       ELSE IF not_author_nor_admin(tok, comments[comment_id])
       THEN /\ resp' = Response("delete_comment", 403, tok, comment_id)
            /\ UNCHANGED comments
       ELSE /\ comments' = delete_one(comments, comment_id)
            /\ resp' = Response("delete_comment", 204, tok, comment_id)
    /\ UNCHANGED <<posts, oid, othersP>>

\* find(...).sort("created_at", 1): ascending, documents of equal created_at
\* in the order they were inserted
RECURSIVE sort_created_at(_)
sort_created_at(ids) ==
    IF ids = {} THEN <<>>
    ELSE LET first == CHOOSE c \in ids : \A e \in ids :
                          \/ comments[c].created_at < comments[e].created_at
                          \/ comments[c].created_at = comments[e].created_at /\ c <= e
         IN  <<first>> \o sort_created_at(ids \ {first})

\* the nested structure: root_comments, and the replies list of every
\* comment in comments_dict (a reply whose parent_id is not in comments_dict
\* is attached nowhere)
nested_comments(post_id) ==
    LET all_comments == sort_created_at(comments_of_post(post_id))
    IN  [root_comments |-> SelectSeq(all_comments,
                                     LAMBDA c : comments[c].parent_id = NoId),
         replies |-> [p \in comments_of_post(post_id) |->
                         SelectSeq(all_comments, LAMBDA c : comments[c].parent_id = p)]]

get_comments_for_post(post_id) ==
    /\ IF ~ObjectId_is_valid(post_id)
       THEN resp' = Response("get_comments_for_post", 400, NoToken, post_id)
       ELSE resp' = ResponseOut("get_comments_for_post", 200, NoToken, post_id,
                                nested_comments(post_id),
                                Len(nested_comments(post_id).root_comments))
    /\ UNCHANGED <<posts, comments, oid, othersP>>

(***************************************************************************)
(* Requests in flight.  A handler is a coroutine: it runs from one database *)
(* await to the next without interruption, and other requests run between  *)
(* its awaits.  procs holds one record per request that has begun, with    *)
(* the place it has reached (pc) and its local variables.                  *)
(***************************************************************************)
MaxProcs == 2

othersR == <<users, tokens, categories, files, cloud, video_calls, doodle_polls,
             now, last_beat, socketVars, chatVars, scheduler>>

\* the request ends with this status
finished(proc, status) == [proc EXCEPT !.pc = "done", !.status = status]

\* create_comment up to its first await that finds the post
create_comment_begin(post_id, author_name, author_email, parent_id) ==
    LET proc == [op |-> "create_comment", pc |-> "insert", status |-> 0,
                 post_id |-> post_id, parent_id |-> parent_id,
                 author_name |-> author_name, author_email |-> author_email,
                 parent_comment |-> NoId, id |-> NoId]
    IN  /\ Len(procs) < MaxProcs
        /\ procs' = Append(procs,
               IF ~ObjectId_is_valid(post_id) THEN finished(proc, 400)
               ELSE IF post_id \notin DOMAIN posts THEN finished(proc, 404)
               ELSE IF parent_id = NoId THEN proc
               ELSE IF ~ObjectId_is_valid(parent_id) THEN finished(proc, 400)
               ELSE [proc EXCEPT !.pc = "find_parent"])
        /\ UNCHANGED <<posts, comments, oid, resp, outbox, othersR>>

\* parent_comment = await collection.find_one(...)
create_comment_find_parent(i) ==
    /\ procs[i].op = "create_comment" /\ procs[i].pc = "find_parent"
    /\ LET proc == procs[i]
       IN  procs' = [procs EXCEPT ![i] =
               IF proc.parent_id \notin DOMAIN comments THEN finished(proc, 404)
               ELSE IF comments[proc.parent_id].post_id # proc.post_id
               THEN finished(proc, 400)
               ELSE [proc EXCEPT !.pc = "insert",
                                 !.parent_comment = comments[proc.parent_id]]]
    /\ UNCHANGED <<posts, comments, oid, resp, outbox, othersR>>

\* result = await collection.insert_one(comment_dict)
create_comment_insert(i) ==
    /\ procs[i].op = "create_comment" /\ procs[i].pc = "insert"
    /\ comments' = insert_one(comments, oid + 1,
                       [post_id |-> procs[i].post_id, parent_id |-> procs[i].parent_id,
                        author_name |-> procs[i].author_name,
                        author_email |-> procs[i].author_email,
                        created_at |-> now])
    /\ oid' = oid + 1
    /\ procs' = [procs EXCEPT ![i].pc = "find_created", ![i].id = oid + 1]
    /\ UNCHANGED <<posts, resp, outbox, othersR>>

\* created_comment = await collection.find_one(...): subscripting None raises
\* (500); otherwise the response is made and the background tasks run
create_comment_find_created(i) ==
    /\ procs[i].op = "create_comment" /\ procs[i].pc = "find_created"
    /\ IF procs[i].id \notin DOMAIN comments
       THEN /\ procs' = [procs EXCEPT ![i] = finished(@, 500)]
            /\ resp' = Response("create_comment", 500, NoToken, procs[i].post_id)
            /\ UNCHANGED <<comments, outbox>>
       ELSE /\ procs' = [procs EXCEPT ![i] = finished(@, 201)]
            /\ resp' = Response("create_comment", 201, NoToken, procs[i].post_id)
            /\ IF procs[i].parent_id = NoId
               THEN /\ UNCHANGED comments
                    /\ outbox' = outbox \cup new_comment_mail(procs[i].id, comments[procs[i].id])
               ELSE /\ comments' =
                           IF /\ procs[i].parent_id \in DOMAIN comments
                              /\ procs[i].parent_comment.author_email = NoStr
                              /\ parent_author_email(procs[i].parent_comment) # NoStr
                           THEN [comments EXCEPT ![procs[i].parent_id].author_email =
                                    parent_author_email(procs[i].parent_comment)]
                           ELSE comments
                    /\ outbox' = outbox
                           \cup reply_mail(procs[i].parent_comment, procs[i].id,
                                           comments[procs[i].id])
                           \cup new_comment_mail(procs[i].id, comments[procs[i].id])
    /\ UNCHANGED <<posts, oid, othersR>>

\* create_user up to its first await that looks for the email
create_user_begin(tok, email, name, role, password) ==
    LET proc == [op |-> "create_user", pc |-> "find_name", status |-> 0, tok |-> tok,
                 email |-> email, name |-> name, role |-> role, password |-> password,
                 id |-> NoId]
    IN  /\ Len(procs) < MaxProcs
        /\ procs' = Append(procs,
               IF get_current_admin_user(tok) # 200
               THEN finished(proc, get_current_admin_user(tok))
               ELSE IF find_one({i \in DOMAIN users : users[i].email = email}) # NoId
               THEN finished(proc, 400)
               ELSE proc)
        /\ UNCHANGED <<users, posts, comments, oid, resp, outbox, tokens, categories, files,
                       cloud, video_calls, doodle_polls, now, last_beat, socketVars,
                       chatVars, scheduler>>

\* existing_name = await users_collection.find_one({"name": ...})
create_user_find_name(i) ==
    /\ procs[i].op = "create_user" /\ procs[i].pc = "find_name"
    /\ procs' = [procs EXCEPT ![i] =
           IF find_one({u \in DOMAIN users : users[u].name = procs[i].name}) # NoId
           THEN finished(procs[i], 400)
           ELSE [procs[i] EXCEPT !.pc = "insert"]]
    /\ UNCHANGED <<users, posts, comments, oid, resp, outbox, tokens, categories, files,
                   cloud, video_calls, doodle_polls, now, last_beat, socketVars,
                   chatVars, scheduler>>

\* result = await users_collection.insert_one(user_dict), and the find_one
\* that reads the document back
create_user_insert(i) ==
    /\ procs[i].op = "create_user" /\ procs[i].pc = "insert"
    /\ users' = insert_one(users, oid + 1,
                    [email |-> procs[i].email, name |-> procs[i].name,
                     password_hash |-> procs[i].password, role |-> procs[i].role,
                     is_active |-> TRUE, last_seen |-> NoTime,
                     comment_replies |-> TRUE])
    /\ oid' = oid + 1
    /\ procs' = [procs EXCEPT ![i] = finished([procs[i] EXCEPT !.id = oid + 1], 200)]
    /\ resp' = Response("create_user", 200, procs[i].tok, oid + 1)
    /\ UNCHANGED <<posts, comments, outbox, tokens, categories, files,
                   cloud, video_calls, doodle_polls, now, last_beat, socketVars,
                   chatVars, scheduler>>

\* delete_post up to its first await that finds the post
delete_post_begin(tok, post_id) ==
    LET proc == [op |-> "delete_post", pc |-> "delete_one", status |-> 0,
                 tok |-> tok, post_id |-> post_id]
    IN  /\ Len(procs) < MaxProcs
        /\ procs' = Append(procs,
               IF get_current_active_user(tok) # 200
               THEN finished(proc, get_current_active_user(tok))
               ELSE IF ~ObjectId_is_valid(post_id) THEN finished(proc, 400)
               ELSE IF post_id \notin DOMAIN posts THEN finished(proc, 404)
               ELSE IF not_author_nor_admin(tok, posts[post_id]) THEN finished(proc, 403)
               ELSE proc)
        /\ UNCHANGED <<posts, comments, oid, resp, outbox, othersR>>

\* result = await collection.delete_one(...)
delete_post_delete_one(i) ==
    /\ procs[i].op = "delete_post" /\ procs[i].pc = "delete_one"
    /\ posts' = delete_one(posts, procs[i].post_id)
    /\ procs' = [procs EXCEPT ![i].pc = "delete_many"]
    /\ UNCHANGED <<comments, oid, resp, outbox, othersR>>

\* await comments_collection.delete_many(...)
delete_post_delete_many(i) ==
    /\ procs[i].op = "delete_post" /\ procs[i].pc = "delete_many"
    /\ comments' = delete_comments_of_post(procs[i].post_id)
    /\ procs' = [procs EXCEPT ![i] = finished(@, 204)]
    /\ resp' = Response("delete_post", 204, procs[i].tok, procs[i].post_id)
    /\ UNCHANGED <<posts, oid, outbox, othersR>>

(***************************************************************************)
(* app/main.py: the socket.io event handlers.  A Python dict is a sequence *)
(* of entries in insertion order; assigning to a key that is present keeps *)
(* its place.  Room membership is kept by the socket.io library: an        *)
(* emission is recorded with the room or socket it is addressed to.        *)
(***************************************************************************)
Sids == {"s1", "s2"}
NoSid == "none"

othersS == <<users, tokens, posts, comments, categories, files, cloud, doodle_polls,
             oid, now, last_beat, chatVars, taskVars>>

\* an event as received: its name, the socket it came from, and its data
SocketEvent(op, sid, data) == [op |-> op, status |-> 200, sid |-> sid, data |-> data]

\* sio.emit(event, payload, room=..., skip_sid=...)
Emit(event, sid, room, skip_sid, payload, from) ==
    [event |-> event, sid |-> sid, room |-> room, skip_sid |-> skip_sid,
     payload |-> payload, from |-> from]

\* keys lists the keys of the dict d, entry by entry
dict_has(keys, k) == \E i \in DOMAIN keys : keys[i] = k

dict_set(d, keys, k, entry) ==
    IF dict_has(keys, k)
    THEN [i \in DOMAIN d |-> IF keys[i] = k THEN entry ELSE d[i]]
    ELSE Append(d, entry)

dict_del(d, keys, k) ==
    IF dict_has(keys, k)
    THEN LET i == CHOOSE j \in DOMAIN keys : keys[j] = k
         IN  SubSeq(d, 1, i - 1) \o SubSeq(d, i + 1, Len(d))
    ELSE d

user_keys == [i \in DOMAIN online_users |-> online_users[i].id]
sid_keys == [i \in DOMAIN active_video_calls |-> active_video_calls[i].sid]

\* the first entry among hits (a for loop with break), or 0 for none
first_match(hits) ==
    IF hits = {} THEN 0 ELSE CHOOSE i \in hits : \A j \in hits : i <= j

\* $pull {"participants": {"user_id": user_id}}
pull_participant(call, user_id) ==
    [call EXCEPT !.participants = SelectSeq(@, LAMBDA q : q.user_id # user_id)]

\* $addToSet {"participants": participant}
add_to_set(seq, x) == IF \E i \in DOMAIN seq : seq[i] = x THEN seq ELSE Append(seq, x)

\* join_webrtc_room and join_webrtc_call: pull, then addToSet and set active
db_join(call_id, user_id, username) ==
    IF ~ObjectId_is_valid(user_id) \/ ~ObjectId_is_valid(call_id)
          \/ call_id \notin DOMAIN video_calls
    THEN video_calls
    ELSE [video_calls EXCEPT ![call_id] =
            [pull_participant(@, user_id) EXCEPT
                !.participants = add_to_set(@, [user_id |-> user_id, username |-> username,
                                                 joined_at |-> now]),
                !.status = "active",
                !.started_at = now]]

\* the leave handlers and disconnect: pull, then reset an empty call to waiting
db_leave(call_id, user_id) ==
    IF ~ObjectId_is_valid(user_id) \/ ~ObjectId_is_valid(call_id)
          \/ call_id \notin DOMAIN video_calls
    THEN video_calls
    ELSE [video_calls EXCEPT ![call_id] =
            IF Len(pull_participant(@, user_id).participants) = 0
            THEN [pull_participant(@, user_id) EXCEPT !.status = "waiting",
                                                       !.started_at = NoTime]
            ELSE pull_participant(@, user_id)]

\* disconnect: the first entry whose socket_id is sid is deleted
online_after_disconnect(sid) ==
    LET i == first_match({j \in DOMAIN online_users : online_users[j].socket_id = sid})
    IN  IF i = 0 THEN online_users
        ELSE dict_del(online_users, user_keys, online_users[i].id)

disconnect(sid) ==
    LET tracked == first_match({j \in DOMAIN online_users : online_users[j].socket_id = sid}) # 0
        i == first_match({j \in DOMAIN active_video_calls : active_video_calls[j].sid = sid})
    IN  /\ online_users' = online_after_disconnect(sid)
        /\ active_video_calls' = dict_del(active_video_calls, sid_keys, sid)
        /\ video_calls' = IF i = 0 THEN video_calls
                          ELSE db_leave(active_video_calls[i].call_id,
                                        active_video_calls[i].user_id)
        /\ emitted' =
              (IF tracked
               THEN {Emit("users_online_update", NoSid, NoId, NoSid, NoStr, NoId)}
               ELSE {})
              \cup
              (IF i # 0
               THEN {Emit("webrtc_user_left", NoSid, active_video_calls[i].call_id,
                          NoSid, NoStr, active_video_calls[i].user_id)}
               ELSE {})
        /\ resp' = SocketEvent("disconnect", sid, [id |-> NoId])
        /\ UNCHANGED othersS

\* data: {id, name, role}; an id or name left out is NoId or NoStr
user_online(sid, data) ==
    /\ IF data.id # NoId /\ data.name # NoStr
       THEN /\ online_users' = dict_set(online_users, user_keys, data.id,
                                   [id |-> data.id, name |-> data.name,
                                    role |-> data.role, socket_id |-> sid])
            /\ emitted' = {Emit("users_online_update", NoSid, NoId, NoSid, NoStr, NoId)}
       ELSE /\ emitted' = {}
            /\ UNCHANGED online_users
    /\ resp' = SocketEvent("user_online", sid, data)
    /\ UNCHANGED <<active_video_calls, video_calls, othersS>>

user_offline(sid, user_id) ==
    /\ IF dict_has(user_keys, user_id)
       THEN /\ online_users' = dict_del(online_users, user_keys, user_id)
            /\ emitted' = {Emit("users_online_update", NoSid, NoId, NoSid, NoStr, NoId)}
       ELSE /\ emitted' = {}
            /\ UNCHANGED online_users
    /\ resp' = SocketEvent("user_offline", sid, [id |-> user_id])
    /\ UNCHANGED <<active_video_calls, video_calls, othersS>>

\* data: {callId, userId, username}
join_webrtc(op, sid, data) ==
    /\ active_video_calls' = dict_set(active_video_calls, sid_keys, sid,
                                 [sid |-> sid, call_id |-> data.callId,
                                  user_id |-> data.userId, username |-> data.username])
    /\ video_calls' = db_join(data.callId, data.userId, data.username)
    /\ emitted' = {Emit("webrtc_user_joined", NoSid, data.callId, sid, data.username,
                        data.userId)}
    /\ resp' = SocketEvent(op, sid, data)
    /\ UNCHANGED <<online_users, othersS>>

join_webrtc_room(sid, data) == join_webrtc("join_webrtc_room", sid, data)

join_webrtc_call(sid, data) == join_webrtc("join_webrtc_call", sid, data)

\* username = active_video_calls[sid][2] if sid is tracked, else 'Unknown'
tracked_username(sid) ==
    LET i == first_match({j \in DOMAIN active_video_calls : active_video_calls[j].sid = sid})
    IN  IF i = 0 THEN "Unknown" ELSE active_video_calls[i].username

\* data: {callId, userId}
leave_webrtc(op, sid, data) ==
    /\ active_video_calls' = dict_del(active_video_calls, sid_keys, sid)
    /\ video_calls' = db_leave(data.callId, data.userId)
    /\ emitted' = {Emit("webrtc_user_left", NoSid, data.callId, NoSid,
                        tracked_username(sid), data.userId)}
    /\ resp' = SocketEvent(op, sid, data)
    /\ UNCHANGED <<online_users, othersS>>

leave_webrtc_room(sid, data) == leave_webrtc("leave_webrtc_room", sid, data)

leave_webrtc_call(sid, data) == leave_webrtc("leave_webrtc_call", sid, data)

\* the relay matches the target user in any call (not what the code does)
target_socket_any_call(call_id, target_user_id) ==
    first_match({j \in DOMAIN active_video_calls :
                    active_video_calls[j].user_id = target_user_id})

\* stored_user_id == target_user_id and stored_call_id == call_id, first match
target_socket(call_id, target_user_id) ==
    first_match({j \in DOMAIN active_video_calls :
                    /\ active_video_calls[j].user_id = target_user_id
                    /\ active_video_calls[j].call_id = call_id})

\* data: {callId, <field>, fromUserId, targetUserId}; payload is data[<field>]
webrtc_relay(op, sid, data) ==
    LET i == target_socket(data.callId, data.targetUserId)
    IN  /\ emitted' = IF i # 0
                      THEN {Emit(op, active_video_calls[i].sid, NoId, NoSid,
                                 data.payload, data.fromUserId)}
                      ELSE {}
        /\ resp' = SocketEvent(op, sid, data)
        /\ UNCHANGED <<online_users, active_video_calls, video_calls, othersS>>

webrtc_offer(sid, data) == webrtc_relay("webrtc_offer", sid, data)

webrtc_answer(sid, data) == webrtc_relay("webrtc_answer", sid, data)

webrtc_ice_candidate(sid, data) == webrtc_relay("webrtc_ice_candidate", sid, data)

(***************************************************************************)
(* The call events step by step: each handler updates its tracking entry,  *)
(* then awaits its database updates one at a time.                         *)
(***************************************************************************)
othersW == <<users, tokens, posts, comments, categories, files, cloud, doodle_polls,
             oid, now, last_beat, chatVars, scheduler, outbox>>

\* join_webrtc_room up to its first await
join_webrtc_room_begin(sid, data) ==
    /\ Len(procs) < MaxProcs
    /\ active_video_calls' = dict_set(active_video_calls, sid_keys, sid,
                                 [sid |-> sid, call_id |-> data.callId,
                                  user_id |-> data.userId, username |-> data.username])
    /\ procs' = Append(procs, [op |-> "join_webrtc_room", pc |-> "pull", status |-> 0,
                               sid |-> sid, call_id |-> data.callId,
                               user_id |-> data.userId, username |-> data.username])
    /\ UNCHANGED <<video_calls, online_users, emitted, resp, othersW>>

\* leave_webrtc_room up to its first await
leave_webrtc_room_begin(sid, data) ==
    /\ Len(procs) < MaxProcs
    /\ active_video_calls' = dict_del(active_video_calls, sid_keys, sid)
    /\ procs' = Append(procs, [op |-> "leave_webrtc_room", pc |-> "pull", status |-> 0,
                               sid |-> sid, call_id |-> data.callId,
                               user_id |-> data.userId,
                               username |-> tracked_username(sid)])
    /\ UNCHANGED <<video_calls, online_users, emitted, resp, othersW>>

\* disconnect up to the first await of its call cleanup
disconnect_begin(sid) ==
    LET tracked == first_match({j \in DOMAIN online_users : online_users[j].socket_id = sid}) # 0
        i == first_match({j \in DOMAIN active_video_calls : active_video_calls[j].sid = sid})
        proc == [op |-> "disconnect", pc |-> "pull", status |-> 0, sid |-> sid,
                 call_id |-> NoId, user_id |-> NoId, username |-> NoStr]
    IN  /\ Len(procs) < MaxProcs
        /\ online_users' = online_after_disconnect(sid)
        /\ active_video_calls' = dict_del(active_video_calls, sid_keys, sid)
        /\ emitted' = IF tracked
                      THEN {Emit("users_online_update", NoSid, NoId, NoSid, NoStr, NoId)}
                      ELSE emitted
        /\ procs' = Append(procs,
               IF i = 0 THEN finished(proc, 200)
               ELSE [proc EXCEPT !.call_id = active_video_calls[i].call_id,
                                 !.user_id = active_video_calls[i].user_id,
                                 !.username = active_video_calls[i].username])
        /\ resp' = IF i = 0 THEN SocketEvent("disconnect", sid, [id |-> NoId]) ELSE resp
        /\ UNCHANGED <<video_calls, othersW>>

\* update_one with $pull of the participant
participant_pull(i) ==
    /\ procs[i].pc = "pull"
    /\ video_calls' = IF procs[i].call_id \in DOMAIN video_calls
                      THEN [video_calls EXCEPT ![procs[i].call_id] =
                               pull_participant(@, procs[i].user_id)]
                      ELSE video_calls
    /\ procs' = [procs EXCEPT ![i].pc = IF procs[i].op = "join_webrtc_room"
                                        THEN "add" ELSE "find"]
    /\ UNCHANGED <<online_users, active_video_calls, emitted, resp, othersW>>

\* update_one with $addToSet of the participant and $set of status and
\* started_at, then the emit to the room
participant_add(i) ==
    /\ procs[i].pc = "add"
    /\ video_calls' = IF procs[i].call_id \in DOMAIN video_calls
                      THEN [video_calls EXCEPT ![procs[i].call_id] =
                               [@ EXCEPT !.participants =
                                             add_to_set(@, [user_id |-> procs[i].user_id,
                                                            username |-> procs[i].username,
                                                            joined_at |-> now]),
                                         !.status = "active",
                                         !.started_at = now]]
                      ELSE video_calls
    /\ procs' = [procs EXCEPT ![i] = finished(procs[i], 200)]
    /\ emitted' = {Emit("webrtc_user_joined", NoSid, procs[i].call_id, procs[i].sid,
                        procs[i].username, procs[i].user_id)}
    /\ resp' = SocketEvent(procs[i].op, procs[i].sid, [id |-> procs[i].call_id])
    /\ UNCHANGED <<online_users, active_video_calls, othersW>>

\* call = await collection.find_one(...): with no participant left the reset
\* comes next, otherwise the emit to the room
call_find(i) ==
    /\ procs[i].pc = "find"
    /\ IF /\ procs[i].call_id \in DOMAIN video_calls
          /\ Len(video_calls[procs[i].call_id].participants) = 0
       THEN /\ procs' = [procs EXCEPT ![i].pc = "reset"]
            /\ UNCHANGED <<emitted, resp>>
       ELSE /\ procs' = [procs EXCEPT ![i] = finished(procs[i], 200)]
            /\ emitted' = {Emit("webrtc_user_left", NoSid, procs[i].call_id, NoSid,
                                procs[i].username, procs[i].user_id)}
            /\ resp' = SocketEvent(procs[i].op, procs[i].sid, [id |-> procs[i].call_id])
    /\ UNCHANGED <<video_calls, online_users, active_video_calls, othersW>>

\* update_one with $set of status "waiting" and started_at None, then the emit
call_reset(i) ==
    /\ procs[i].pc = "reset"
    /\ video_calls' = IF procs[i].call_id \in DOMAIN video_calls
                      THEN [video_calls EXCEPT ![procs[i].call_id] =
                               [@ EXCEPT !.status = "waiting", !.started_at = NoTime]]
                      ELSE video_calls
    /\ procs' = [procs EXCEPT ![i] = finished(procs[i], 200)]
    /\ emitted' = {Emit("webrtc_user_left", NoSid, procs[i].call_id, NoSid,
                        procs[i].username, procs[i].user_id)}
    /\ resp' = SocketEvent(procs[i].op, procs[i].sid, [id |-> procs[i].call_id])
    /\ UNCHANGED <<online_users, active_video_calls, othersW>>

(***************************************************************************)
(* app/routers/video_calls.py, app/routers/calendar.py and                 *)
(* app/routers/files.py.  channel_name is "call" or "room" in place of the *)
(* random suffix.  cloud counts the assets uploaded to Cloudinary.         *)
(***************************************************************************)
othersC == <<users, tokens, posts, comments, categories, now, last_beat,
             socketVars, chatVars, taskVars>>

new_call(channel_name, creator_id, call_type, invited_users) ==
    [channel_name |-> channel_name, creator_id |-> creator_id, call_type |-> call_type,
     invited_users |-> invited_users, status |-> "waiting", started_at |-> NoTime,
     ended_at |-> NoTime, participants |-> <<>>]

generate_agora_token(tok, call_id) ==
    /\ resp' = Response("generate_agora_token",
                   IF get_current_active_user(tok) # 200 THEN get_current_active_user(tok)
                   \* ObjectId(call_id) raises inside the try: answered 500
                   ELSE IF ~ObjectId_is_valid(call_id) THEN 500
                   \* the 404 is raised inside the try and caught by except Exception
                   ELSE IF call_id \notin DOMAIN video_calls THEN 500
                   ELSE IF video_calls[call_id].channel_name = NoStr THEN 500
                   ELSE 200,
                   tok, call_id)
    /\ UNCHANGED <<video_calls, doodle_polls, files, cloud, oid, othersC>>

\* call_data: VideoCallCreate
create_video_call(tok, call_type, invited_users) ==
    /\ IF get_current_active_user(tok) # 200
       THEN /\ resp' = Response("create_video_call", get_current_active_user(tok), tok, NoId)
            /\ UNCHANGED <<video_calls, oid>>
       ELSE IF \E uid \in invited_users : ~ObjectId_is_valid(uid)
       THEN /\ resp' = Response("create_video_call", 500, tok, NoId)
            /\ UNCHANGED <<video_calls, oid>>
       ELSE /\ CanAllocate
            /\ oid' = oid + 1
            /\ video_calls' = insert_one(video_calls, oid + 1,
                                  new_call("call", tok.user_id, call_type, invited_users))
            /\ resp' = Response("create_video_call", 200, tok, oid + 1)
    /\ UNCHANGED <<doodle_polls, files, cloud, othersC>>

create_meeting_room(tok) ==
    /\ IF get_current_active_user(tok) # 200
       THEN /\ resp' = Response("create_meeting_room", get_current_active_user(tok), tok, NoId)
            /\ UNCHANGED <<video_calls, oid>>
       ELSE /\ CanAllocate
            /\ oid' = oid + 1
            /\ video_calls' = insert_one(video_calls, oid + 1,
                                  new_call("room", tok.user_id, "meeting", {}))
            /\ resp' = Response("create_meeting_room", 200, tok, oid + 1)
    /\ UNCHANGED <<doodle_polls, files, cloud, othersC>>

\* private call: neither invited nor the creator
not_invited(tok, call) ==
    /\ call.call_type = "private"
    /\ tok.user_id \notin call.invited_users
    /\ call.creator_id # tok.user_id

join_video_call(tok, call_id) ==
    /\ IF get_current_active_user(tok) # 200
       THEN /\ resp' = Response("join_video_call", get_current_active_user(tok), tok, call_id)
            /\ UNCHANGED video_calls
       ELSE IF ~ObjectId_is_valid(call_id)
       THEN /\ resp' = Response("join_video_call", 400, tok, call_id)
            /\ UNCHANGED video_calls
       ELSE IF call_id \notin DOMAIN video_calls
       THEN /\ resp' = Response("join_video_call", 404, tok, call_id)
            /\ UNCHANGED video_calls
       ELSE IF not_invited(tok, video_calls[call_id])
       THEN /\ resp' = Response("join_video_call", 403, tok, call_id)
            /\ UNCHANGED video_calls
       ELSE /\ video_calls' = [video_calls EXCEPT ![call_id] =
                  [@ EXCEPT !.participants =
                                add_to_set(@, [user_id |-> tok.user_id, username |-> tok.name,
                                               joined_at |-> now]),
                            !.status = "active",
                            !.started_at = IF video_calls[call_id].status = "waiting"
                                           THEN now ELSE @]]
            /\ resp' = Response("join_video_call", 200, tok, call_id)
    /\ UNCHANGED <<doodle_polls, files, cloud, oid, othersC>>

\* $pull, then an empty call is set to ended; a call that is not found is
\* answered like one that was left
leave_video_call(tok, call_id) ==
    /\ IF get_current_active_user(tok) # 200
       THEN /\ resp' = Response("leave_video_call", get_current_active_user(tok), tok, call_id)
            /\ UNCHANGED video_calls
       ELSE IF ~ObjectId_is_valid(call_id)
       THEN /\ resp' = Response("leave_video_call", 400, tok, call_id)
            /\ UNCHANGED video_calls
       ELSE /\ video_calls' =
                  IF call_id \notin DOMAIN video_calls THEN video_calls
                  ELSE [video_calls EXCEPT ![call_id] =
                          IF Len(pull_participant(@, tok.user_id).participants) = 0
                          THEN [pull_participant(@, tok.user_id) EXCEPT
                                   !.status = "ended", !.ended_at = now]
                          ELSE pull_participant(@, tok.user_id)]
            /\ resp' = Response("leave_video_call", 200, tok, call_id)
    /\ UNCHANGED <<doodle_polls, files, cloud, oid, othersC>>

\* delete_meeting_room up to its find_one and the checks on what it read
delete_meeting_room_begin(tok, room_id) ==
    LET proc == [op |-> "delete_meeting_room", pc |-> "delete_one", status |-> 0,
                 tok |-> tok, call_id |-> room_id]
        status == IF get_current_active_user(tok) # 200 THEN get_current_active_user(tok)
                  ELSE IF ~ObjectId_is_valid(room_id) THEN 500
                  ELSE IF room_id \notin DOMAIN video_calls THEN 404
                  ELSE IF video_calls[room_id].creator_id # tok.user_id THEN 403
                  ELSE IF Len(video_calls[room_id].participants) > 0 THEN 400
                  ELSE 0
    IN  /\ Len(procs) < MaxProcs
        /\ procs' = Append(procs, IF status = 0 THEN proc ELSE finished(proc, status))
        /\ resp' = IF status = 0 THEN resp
                   ELSE Response("delete_meeting_room", status, tok, room_id)
        /\ UNCHANGED <<video_calls, doodle_polls, files, cloud, oid, users, tokens, posts,
                       comments, categories, now, last_beat, socketVars, chatVars,
                       scheduler, outbox>>

\* result = await collection.delete_one(...): 500 when nothing was deleted
delete_meeting_room_delete_one(i) ==
    /\ procs[i].op = "delete_meeting_room" /\ procs[i].pc = "delete_one"
    /\ video_calls' = delete_one(video_calls, procs[i].call_id)
    /\ procs' = [procs EXCEPT ![i] =
           finished(procs[i], IF procs[i].call_id \in DOMAIN video_calls THEN 200 ELSE 500)]
    /\ resp' = Response("delete_meeting_room",
                        IF procs[i].call_id \in DOMAIN video_calls THEN 200 ELSE 500,
                        procs[i].tok, procs[i].call_id)
    /\ UNCHANGED <<doodle_polls, files, cloud, oid, users, tokens, posts,
                   comments, categories, now, last_beat, socketVars, chatVars,
                   scheduler, outbox>>

\* get_meeting_rooms: the calls of type meeting that are waiting or active
get_meeting_rooms(tok) ==
    /\ IF get_current_active_user(tok) # 200
       THEN resp' = Response("get_meeting_rooms", get_current_active_user(tok), tok, NoId)
       ELSE LET rooms == {c \in DOMAIN video_calls :
                             /\ video_calls[c].call_type = "meeting"
                             /\ video_calls[c].status \in {"waiting", "active"}}
            IN  resp' = ResponseOut("get_meeting_rooms", 200, tok, NoId, rooms,
                                    Cardinality(rooms))
    /\ UNCHANGED <<video_calls, doodle_polls, files, cloud, oid, othersC>>

delete_meeting_room(tok, room_id) ==
    /\ IF get_current_active_user(tok) # 200
       THEN /\ resp' = Response("delete_meeting_room", get_current_active_user(tok), tok, room_id)
            /\ UNCHANGED video_calls
       \* ObjectId(room_id) raises inside the try: except Exception answers 500
       ELSE IF ~ObjectId_is_valid(room_id)
       THEN /\ resp' = Response("delete_meeting_room", 500, tok, room_id)
            /\ UNCHANGED video_calls
       ELSE IF room_id \notin DOMAIN video_calls
       THEN /\ resp' = Response("delete_meeting_room", 404, tok, room_id)
            /\ UNCHANGED video_calls
       ELSE IF video_calls[room_id].creator_id # tok.user_id
       THEN /\ resp' = Response("delete_meeting_room", 403, tok, room_id)
            /\ UNCHANGED video_calls
       ELSE IF Len(video_calls[room_id].participants) > 0
       THEN /\ resp' = Response("delete_meeting_room", 400, tok, room_id)
            /\ UNCHANGED video_calls
       ELSE /\ video_calls' = delete_one(video_calls, room_id)
            /\ resp' = Response("delete_meeting_room", 200, tok, room_id)
    /\ UNCHANGED <<doodle_polls, files, cloud, oid, othersC>>

\* the option ids of a poll, in place of the generated ones
DoodleOptions == {"o1", "o2"}

\* the document create_doodle stores
new_doodle(tok, title, deadline) ==
    [title |-> title, creator_id |-> tok.user_id, creator_name |-> tok.name,
     options |-> DoodleOptions, responses |-> <<>>, settings |-> [deadline |-> deadline],
     status |-> "active", final_option |-> NoStr, created_at |-> now, closed_at |-> NoTime]

create_doodle(tok, title) ==
    /\ IF get_current_active_user(tok) # 200
       THEN /\ resp' = Response("create_doodle", get_current_active_user(tok), tok, NoId)
            /\ UNCHANGED <<doodle_polls, oid>>
       ELSE /\ CanAllocate
            /\ oid' = oid + 1
            /\ doodle_polls' = insert_one(doodle_polls, oid + 1, new_doodle(tok, title, NoTime))
            /\ resp' = Response("create_doodle", 200, tok, oid + 1)
    /\ UNCHANGED <<video_calls, files, cloud, othersC>>

get_doodle(tok, doodle_id) ==
    /\ resp' = Response("get_doodle",
                   IF get_current_active_user(tok) # 200 THEN get_current_active_user(tok)
                   \* ObjectId(doodle_id) raises inside the try: answered 500
                   ELSE IF ~ObjectId_is_valid(doodle_id) THEN 500
                   ELSE IF doodle_id \notin DOMAIN doodle_polls THEN 404
                   ELSE 200,
                   tok, doodle_id)
    /\ UNCHANGED <<video_calls, doodle_polls, files, cloud, oid, othersC>>

\* get_doodles: polls whose deadline passed are marked expired, then listed
get_doodles(tok) ==
    /\ IF get_current_active_user(tok) # 200
       THEN /\ resp' = Response("get_doodles", get_current_active_user(tok), tok, NoId)
            /\ UNCHANGED doodle_polls
       ELSE /\ doodle_polls' =
                 [d \in DOMAIN doodle_polls |->
                     IF /\ doodle_polls[d].status = "active"
                        /\ doodle_polls[d].settings.deadline # NoTime
                        /\ doodle_polls[d].settings.deadline < now
                     THEN [doodle_polls[d] EXCEPT !.status = "expired"]
                     ELSE doodle_polls[d]]
            /\ resp' = ResponseOut("get_doodles", 200, tok, NoId, DOMAIN doodle_polls,
                                   Cardinality(DOMAIN doodle_polls))
    /\ UNCHANGED <<video_calls, files, cloud, oid, othersC>>

\* the entries of a responses list that are not the user's ($pull)
responses_pull(responses, user_id) ==
    SelectSeq(responses, LAMBDA r : r.user_id # user_id)

\* respond_to_doodle up to its checks on the document find_one read;
\* response is response_data.responses, a dict from option id to answer
respond_to_doodle_begin(tok, doodle_id, response) ==
    LET proc == [op |-> "respond_to_doodle", pc |-> "pull", status |-> 0, tok |-> tok,
                 doodle_id |-> doodle_id,
                 user_response |-> [user_id |-> tok.user_id, username |-> tok.name,
                                    responses |-> response, responded_at |-> now]]
        status == IF get_current_active_user(tok) # 200 THEN get_current_active_user(tok)
                  ELSE IF ~ObjectId_is_valid(doodle_id) THEN 500
                  ELSE IF doodle_id \notin DOMAIN doodle_polls THEN 404
                  ELSE IF doodle_polls[doodle_id].status # "active" THEN 400
                  ELSE IF /\ doodle_polls[doodle_id].settings.deadline # NoTime
                          /\ now > doodle_polls[doodle_id].settings.deadline THEN 400
                  ELSE IF ~(DOMAIN response \subseteq doodle_polls[doodle_id].options) THEN 400
                  ELSE 0
    IN  /\ Len(procs) < MaxProcs
        /\ procs' = Append(procs, IF status = 0 THEN proc ELSE finished(proc, status))
        /\ resp' = IF status = 0 THEN resp
                   ELSE Response("respond_to_doodle", status, tok, doodle_id)
        /\ UNCHANGED <<video_calls, doodle_polls, files, cloud, oid, users, tokens, posts,
                       comments, categories, now, last_beat, socketVars, chatVars,
                       scheduler, outbox>>

\* await update_one({_id}, {$pull: {responses: {user_id}}})
respond_to_doodle_pull(i) ==
    LET proc == procs[i]
    IN  /\ proc.op = "respond_to_doodle" /\ proc.pc = "pull"
        /\ doodle_polls' =
             [d \in DOMAIN doodle_polls |->
                 IF d = proc.doodle_id
                 THEN [doodle_polls[d] EXCEPT
                          !.responses = responses_pull(doodle_polls[d].responses,
                                                       proc.tok.user_id)]
                 ELSE doodle_polls[d]]
        /\ procs' = [procs EXCEPT ![i] = [proc EXCEPT !.pc = "push"]]
        /\ UNCHANGED <<resp, video_calls, files, cloud, oid, users, tokens, posts,
                       comments, categories, now, last_beat, socketVars, chatVars,
                       scheduler, outbox>>

\* await update_one({_id}, {$push: {responses: user_response}}), then the
\* answer of get_doodle: 404 when the poll is gone
respond_to_doodle_push(i) ==
    LET proc == procs[i]
        status == IF proc.doodle_id \in DOMAIN doodle_polls THEN 200 ELSE 404
    IN  /\ proc.op = "respond_to_doodle" /\ proc.pc = "push"
        /\ doodle_polls' =
             [d \in DOMAIN doodle_polls |->
                 IF d = proc.doodle_id
                 THEN [doodle_polls[d] EXCEPT
                          !.responses = Append(doodle_polls[d].responses, proc.user_response)]
                 ELSE doodle_polls[d]]
        /\ procs' = [procs EXCEPT ![i] = finished(proc, status)]
        /\ resp' = ResponseOut("respond_to_doodle", status, proc.tok, proc.doodle_id,
                               {proc.user_response}, 0)
        /\ UNCHANGED <<video_calls, files, cloud, oid, users, tokens, posts,
                       comments, categories, now, last_beat, socketVars, chatVars,
                       scheduler, outbox>>

\* close_doodle: the creator sets the final option; the status of the poll
\* is not looked at
close_doodle(tok, doodle_id, final_option) ==
    /\ IF get_current_active_user(tok) # 200
       THEN /\ resp' = Response("close_doodle", get_current_active_user(tok), tok, doodle_id)
            /\ UNCHANGED doodle_polls
       ELSE IF ~ObjectId_is_valid(doodle_id)
       THEN /\ resp' = Response("close_doodle", 500, tok, doodle_id)
            /\ UNCHANGED doodle_polls
       ELSE IF doodle_id \notin DOMAIN doodle_polls
       THEN /\ resp' = Response("close_doodle", 404, tok, doodle_id)
            /\ UNCHANGED doodle_polls
       ELSE IF doodle_polls[doodle_id].creator_id # tok.user_id
       THEN /\ resp' = Response("close_doodle", 403, tok, doodle_id)
            /\ UNCHANGED doodle_polls
       ELSE IF final_option \notin doodle_polls[doodle_id].options
       THEN /\ resp' = Response("close_doodle", 400, tok, doodle_id)
            /\ UNCHANGED doodle_polls
       ELSE /\ doodle_polls' = [doodle_polls EXCEPT ![doodle_id] =
                                   [doodle_polls[doodle_id] EXCEPT !.status = "closed",
                                                                   !.final_option = final_option,
                                                                   !.closed_at = now]]
            /\ resp' = Response("close_doodle", 200, tok, doodle_id)
    /\ UNCHANGED <<video_calls, files, cloud, oid, othersC>>

\* delete_doodle: the creator removes the poll
delete_doodle(tok, doodle_id) ==
    /\ IF get_current_active_user(tok) # 200
       THEN /\ resp' = Response("delete_doodle", get_current_active_user(tok), tok, doodle_id)
            /\ UNCHANGED doodle_polls
       ELSE IF ~ObjectId_is_valid(doodle_id)
       THEN /\ resp' = Response("delete_doodle", 500, tok, doodle_id)
            /\ UNCHANGED doodle_polls
       ELSE IF doodle_id \notin DOMAIN doodle_polls
       THEN /\ resp' = Response("delete_doodle", 404, tok, doodle_id)
            /\ UNCHANGED doodle_polls
       ELSE IF doodle_polls[doodle_id].creator_id # tok.user_id
       THEN /\ resp' = Response("delete_doodle", 403, tok, doodle_id)
            /\ UNCHANGED doodle_polls
       ELSE /\ doodle_polls' = delete_one(doodle_polls, doodle_id)
            /\ resp' = Response("delete_doodle", 200, tok, doodle_id)
    /\ UNCHANGED <<video_calls, files, cloud, oid, othersC>>

\* the answer of upload_file for a category_id that passed no validation yet:
\* both 400s are raised inside the try and caught by except Exception
upload_status(category_id) ==
    IF category_id # NoId /\ ~ObjectId_is_valid(category_id) THEN 500
    ELSE IF category_id # NoId /\ ~category_usable(category_id) THEN 500
    ELSE 201

\* the asset is uploaded to Cloudinary before category_id is validated
upload_file(tok, uploaded_by, category_id) ==
    /\ cloud < MaxDocs
    /\ cloud' = cloud + 1
    /\ IF upload_status(category_id) # 201
       THEN /\ resp' = Response("upload_file", upload_status(category_id), tok, category_id)
            /\ UNCHANGED <<files, oid>>
       ELSE /\ CanAllocate
            /\ oid' = oid + 1
            /\ files' = insert_one(files, oid + 1,
                            [filename |-> cloud + 1, uploaded_by |-> uploaded_by,
                             category_id |-> category_id, uploaded_at |-> now])
            /\ resp' = Response("upload_file", 201, tok, category_id)
    /\ UNCHANGED <<video_calls, doodle_polls, othersC>>

\* routers/categories.py delete_category: only the posts are counted
delete_category(tok, category_id) ==
    /\ IF get_current_admin_user(tok) # 200
       THEN /\ resp' = Response("delete_category", get_current_admin_user(tok), tok, category_id)
            /\ UNCHANGED categories
       ELSE IF ~ObjectId_is_valid(category_id)
       THEN /\ resp' = Response("delete_category", 400, tok, category_id)
            /\ UNCHANGED categories
       ELSE IF {p \in DOMAIN posts : posts[p].category_id = category_id} # {}
       THEN /\ resp' = Response("delete_category", 400, tok, category_id)
            /\ UNCHANGED categories
       ELSE IF category_id \notin DOMAIN categories
       THEN /\ resp' = Response("delete_category", 404, tok, category_id)
            /\ UNCHANGED categories
       ELSE /\ categories' = delete_one(categories, category_id)
            /\ resp' = Response("delete_category", 200, tok, category_id)
    /\ UNCHANGED <<users, tokens, posts, comments, files, cloud, video_calls, doodle_polls,
                   oid, now, last_beat, socketVars, chatVars, taskVars>>

(***************************************************************************)
(* app/main.py: send_message and check_and_send_chat_notification.  In the *)
(* chat specification the clock counts hours.  prev_message_at is a        *)
(* history variable: the time of the latest send_message so far.           *)
(***************************************************************************)
NOTIFY_AFTER_HOURS == 2

\* time_diff > timedelta(hours=2)
quiet_long_enough(time_diff) == time_diff > NOTIFY_AFTER_HOURS

\* last_chat_notification is None, or more than two hours after it
should_notify ==
    \/ last_chat_notification = NoTime
    \/ quiet_long_enough(now - last_chat_notification)

\* the admin users with Telegram configured and notifications enabled
admin_telegram_ids ==
    {users[i].telegram_id : i \in
        {j \in DOMAIN users :
            /\ users[j].role = "admin"
            /\ users[j].is_active
            /\ users[j].telegram_id # NoStr
            /\ users[j].telegram_enabled
            /\ users[j].telegram_admin_notifications}}

\* data: {user, message}
send_message(sid, data) ==
    /\ emitted' = {Emit("receive_message", NoSid, NoId, sid, data.message, NoId)}
    /\ last_chat_notification' = IF should_notify THEN now ELSE last_chat_notification
    /\ prev_message_at' = now
    /\ resp' = [op |-> "send_message", status |-> 200, sid |-> sid, data |-> data,
                notify |-> should_notify,
                out |-> IF should_notify THEN admin_telegram_ids ELSE {}]
    /\ UNCHANGED <<dbVars, tokens, oid, now, last_beat, online_users, active_video_calls,
                   taskVars>>

(***************************************************************************)
(* app/services/scheduler_service.py.  The scheduler task is at one of its *)
(* awaits: the initial sleep, create_backup, or one of the one-minute      *)
(* sleeps of the interval.  IntervalMinutes stands for                     *)
(* backup_interval_hours * 3600 // 60, attempts counts up to MaxAttempts.  *)
(***************************************************************************)
IntervalMinutes == 3
MaxAttempts == 3

othersT == <<dbVars, tokens, oid, now, resp, last_beat, socketVars, chatVars, procs, outbox>>

\* __init__: enabled is ENABLE_SCHEDULED_BACKUPS, configured is
\* backup_service.backup_enabled
SchedulerService(enabled, configured) ==
    [enabled |-> enabled, configured |-> configured, running |-> FALSE,
     task |-> "none", wait |-> 0, last |-> "none", attempts |-> 0]

BackupResults == {"success", "failed", "raised"}

\* while self.running: the next backup, or the end of the loop (finally)
while_running(sch) ==
    IF sch.running THEN [sch EXCEPT !.task = "backup"]
    ELSE [sch EXCEPT !.task = "done", !.running = FALSE]

scheduler_start ==
    /\ scheduler' = IF ~scheduler.enabled \/ scheduler.running THEN scheduler
                    ELSE [scheduler EXCEPT !.running = TRUE, !.task = "initial_sleep"]
    /\ UNCHANGED othersT

\* self.task.cancel(): CancelledError is raised at the await the task is at
scheduler_stop ==
    /\ scheduler' = IF ~scheduler.running THEN scheduler
                    ELSE [scheduler EXCEPT !.running = FALSE, !.task = "cancelled"]
    /\ UNCHANGED othersT

\* asyncio.sleep(initial_delay) returns
initial_sleep_done ==
    /\ scheduler.task = "initial_sleep"
    /\ scheduler' = while_running(scheduler)
    /\ UNCHANGED othersT

\* an exception of create_backup ends the loop (not what the code does)
after_backup_raise_ends(sch, result) ==
    IF result = "raised" THEN [sch EXCEPT !.task = "done", !.running = FALSE]
    ELSE IF IntervalMinutes = 0 THEN while_running(sch)
    ELSE [sch EXCEPT !.task = "wait", !.wait = IntervalMinutes - 1]

\* the result is logged whatever it is; then the first one-minute sleep of
\* the interval, or the next turn of the loop when the interval is empty
after_backup(sch, result) ==
    IF IntervalMinutes = 0 THEN while_running(sch)
    ELSE IF ~sch.running THEN while_running(sch)
    ELSE [sch EXCEPT !.task = "wait", !.wait = IntervalMinutes - 1]

\* create_backup returns success true or false, or raises; a service that
\* is not configured returns success false
backup_done(result) ==
    /\ scheduler.task = "backup"
    /\ ~scheduler.configured => result = "failed"
    /\ scheduler' = after_backup([scheduler EXCEPT
                                     !.last = result,
                                     !.attempts = IF @ < MaxAttempts THEN @ + 1 ELSE @],
                                 result)
    /\ UNCHANGED othersT

\* asyncio.sleep(60) returns: the next sleep, or the next turn of the loop
minute_sleep_done ==
    /\ scheduler.task = "wait"
    /\ scheduler' = IF scheduler.wait = 0 \/ ~scheduler.running
                    THEN while_running(scheduler)
                    ELSE [scheduler EXCEPT !.wait = @ - 1]
    /\ UNCHANGED othersT

(***************************************************************************)
(* start() and stop() taken at their awaits.  Every asyncio.create_task of *)
(* start() is an entry of procs, self.task is its index (0 for None), and  *)
(* a stop() that reached "await self.task" is an entry of procs too.       *)
(***************************************************************************)
othersL == <<dbVars, tokens, oid, now, resp, last_beat, socketVars, chatVars, outbox>>

\* asyncio.create_task(self._scheduler_loop()): the task has not run yet
loop_task == [op |-> "_scheduler_loop", pc |-> "created", status |-> 0,
              cancelled |-> FALSE, wait |-> 0]

\* start() has no await: it runs whole
start ==
    /\ IF ~scheduler.enabled \/ scheduler.running
       THEN UNCHANGED <<scheduler, procs>>
       ELSE /\ scheduler' = [scheduler EXCEPT !.running = TRUE, !.task = Len(procs) + 1]
            /\ procs' = Append(procs, loop_task)
    /\ UNCHANGED othersL

\* stop() up to "await self.task"; cancel() of a finished task does nothing
stop_begin ==
    /\ IF ~scheduler.running
       THEN UNCHANGED <<scheduler, procs>>
       ELSE LET t == scheduler.task
                call == [op |-> "stop", pc |-> IF t # 0 THEN "await_task" ELSE "done",
                         status |-> 0, task |-> t]
            IN  /\ scheduler' = [scheduler EXCEPT !.running = FALSE]
                /\ procs' = Append(IF t # 0 /\ procs[t].pc # "done"
                                   THEN [procs EXCEPT ![t] = [procs[t] EXCEPT !.cancelled = TRUE]]
                                   ELSE procs,
                                   call)
    /\ UNCHANGED othersL

\* "await self.task" returns (or raises CancelledError, which is passed
\* over) once the task is done
stop_await_task(i) ==
    LET proc == procs[i]
    IN  /\ proc.op = "stop" /\ proc.pc = "await_task"
        /\ procs[proc.task].pc = "done"
        /\ procs' = [procs EXCEPT ![i] = finished(proc, 0)]
        /\ UNCHANGED <<scheduler, othersL>>

\* a task of _scheduler_loop runs from one await to the next; the loop ends
\* through "finally: self.running = False"
scheduler_loop_step(i) ==
    LET proc == procs[i]
        again == proc.pc = "initial_sleep"
                 \/ (proc.pc = "backup" /\ (IntervalMinutes = 0 \/ ~scheduler.running))
                 \/ (proc.pc = "wait" /\ (proc.wait = 0 \/ ~scheduler.running))
    IN  /\ proc.op = "_scheduler_loop" /\ proc.pc # "done" /\ ~proc.cancelled
        /\ procs' = [procs EXCEPT ![i] =
               IF proc.pc = "created" THEN [proc EXCEPT !.pc = "initial_sleep"]
               ELSE IF again /\ scheduler.running THEN [proc EXCEPT !.pc = "backup"]
               ELSE IF again THEN finished(proc, 0)
               ELSE IF proc.pc = "backup"
               THEN [proc EXCEPT !.pc = "wait", !.wait = IntervalMinutes - 1]
               ELSE [proc EXCEPT !.wait = proc.wait - 1]]
        /\ scheduler' = IF proc.pc # "created" /\ again /\ ~scheduler.running
                        THEN [scheduler EXCEPT !.running = FALSE]
                        ELSE scheduler
        /\ UNCHANGED othersL

\* CancelledError is raised at the await the task is at and leaves through
\* "finally: self.running = False"; a task cancelled before it first ran
\* ends without entering the try
scheduler_loop_cancelled(i) ==
    LET proc == procs[i]
    IN  /\ proc.op = "_scheduler_loop" /\ proc.pc # "done" /\ proc.cancelled
        /\ procs' = [procs EXCEPT ![i] = finished(proc, 0)]
        /\ scheduler' = IF proc.pc = "created" THEN scheduler
                        ELSE [scheduler EXCEPT !.running = FALSE]
        /\ UNCHANGED othersL

(***************************************************************************)
(* Initial states.  The users collection holds the administrator that      *)
(* create_admin_auto.py inserts; everything else is empty.                 *)
(***************************************************************************)
Empty == [i \in {} |-> NoId]

AdminUser == [email |-> "admin@iskandar.com", name |-> "Admin User",
              password_hash |-> "admin123", role |-> "admin", is_active |-> TRUE,
              last_seen |-> NoTime]

\* everything but the scheduler, the posts and the polls
InitBare ==
    /\ comments = Empty
    /\ files = Empty
    /\ cloud = 0
    /\ now = 0
    /\ resp = Response("start", 200, NoToken, NoId)
    /\ online_users = <<>>
    /\ active_video_calls = <<>>
    /\ emitted = {}
    /\ last_chat_notification = NoTime
    /\ prev_message_at = NoTime
    /\ last_beat = Empty
    /\ procs = <<>>
    /\ outbox = {}

\* everything but the scheduler and the posts
InitIdle == doodle_polls = Empty /\ InitBare

\* everything but the scheduler
InitQuiet == posts = Empty /\ InitIdle

\* the scheduler is constructed and not started
InitCommon == InitQuiet /\ scheduler = SchedulerService(TRUE, TRUE)

InitUsers ==
    /\ InitCommon
    /\ video_calls = Empty
    /\ categories = Empty
    /\ tokens = {}
    /\ users = insert_one(Empty, 1, AdminUser)
    /\ oid = 1

UserIds == BadId .. MaxUserOid

NextUsers ==
    \/ \E n \in Names, p \in Passwords \cup {WrongPassword} : login(n, p)
    \/ \E t \in tokens : heartbeat(t)
    \/ \E t \in tokens, n \in Names \cup {NoStr} : update_current_user_profile(t, n)
    \/ \E t \in tokens, e \in Emails, n \in Names, p \in Passwords :
          create_user(t, e, n, "normal", p)
    \/ \E t \in tokens, i \in UserIds, d \in UserUpdates : update_user(t, i, d)
    \/ \E t \in tokens, i \in UserIds : delete_user(t, i)
    \/ \E t \in tokens, i \in UserIds : toggle_user_status(t, i)

SpecUsers == InitUsers /\ [][NextUsers]_vars

(***************************************************************************)
(* Claims about the users collection, checked under SpecUsers.             *)
(***************************************************************************)

\* C2: after any sequence of completed create_user, update_user and
\* update_current_user_profile requests no two user documents have the same
\* name and no two have the same email.
C2_UniqueNameAndEmail ==
    \A i, j \in DOMAIN users :
        i # j => users[i].name # users[j].name /\ users[i].email # users[j].email

AuthenticatedOps == {"heartbeat", "update_current_user_profile", "create_user",
                     "update_user", "delete_user", "toggle_user_status"}

\* C4: a request to an authenticated endpoint that carries a token issued
\* earlier to a user who is now deactivated or deleted is answered 401 and
\* changes no stored state (the test is made at each request, so it stops
\* applying once the user is reactivated).
C4_RevokedTokenRejected ==
    [][(/\ resp'.op \in AuthenticatedOps
        /\ resp'.tok \in tokens
        /\ ~(resp'.tok.user_id \in DOMAIN users /\ users[resp'.tok.user_id].is_active))
       => (resp'.status = 401 /\ UNCHANGED dbVars)]_vars

\* C4 witness: a deactivated user's earlier token has just been refused
C4_Witness ==
    /\ resp.op \in AuthenticatedOps
    /\ resp.status = 401
    /\ resp.tok \in tokens
    /\ resp.tok.user_id \in DOMAIN users
    /\ ~users[resp.tok.user_id].is_active

(***************************************************************************)
(* Presence: two users whose tokens were issued earlier; time passes.      *)
(***************************************************************************)
AnaUser == [email |-> "ana@x.org", name |-> "ana", password_hash |-> "admin123",
            role |-> "normal", is_active |-> TRUE, last_seen |-> NoTime]

InitPresence ==
    /\ InitCommon
    /\ video_calls = Empty
    /\ categories = Empty
    /\ users = insert_one(insert_one(Empty, 1, AdminUser), 2, AnaUser)
    /\ tokens = {create_user_token(1, AdminUser), create_user_token(2, AnaUser)}
    /\ oid = 2

NextPresence ==
    \/ Tick
    \/ \E n \in Names, p \in Passwords \cup {WrongPassword} : login(n, p)
    \/ \E t \in tokens : heartbeat(t)
    \/ \E t \in tokens, i \in DOMAIN users : toggle_user_status(t, i)
    \/ \E t \in tokens : get_currently_online_users(t)
    \/ \E t \in tokens : cleanup_offline_users_endpoint(t)

SpecPresence == InitPresence /\ [][NextPresence]_vars

\* C6: get_online_users reports a user exactly when the user is active and
\* last_seen lies within the last 5 minutes; so a user with no login or
\* heartbeat for more than 5 minutes is never reported online, and an active
\* user whose last login or heartbeat is less than 5 minutes old always is.
C6_OnlineIffRecentBeat ==
    resp.op = "get_online_users" /\ resp.status = 200 =>
        /\ resp.out = {i \in DOMAIN users :
                          /\ users[i].is_active
                          /\ users[i].last_seen # NoTime
                          /\ now - users[i].last_seen <= ONLINE_THRESHOLD_MINUTES}
        /\ \A i \in DOMAIN users :
              /\ (i \notin DOMAIN last_beat \/ now - last_beat[i] > ONLINE_THRESHOLD_MINUTES)
                    => i \notin resp.out
              /\ (/\ users[i].is_active
                  /\ i \in DOMAIN last_beat
                  /\ now - last_beat[i] < ONLINE_THRESHOLD_MINUTES) => i \in resp.out

(***************************************************************************)
(* Posts and comments: an administrator and two members, each holding a    *)
(* token, and one active category.                                         *)
(***************************************************************************)
Member(name) == [email |-> name \o "@x.org", name |-> name, password_hash |-> "admin123",
                 role |-> "normal", is_active |-> TRUE, last_seen |-> NoTime]

PostsUsers == <<AdminUser, Member("ana"), Member("ben")>>

InitPosts ==
    /\ InitCommon
    /\ video_calls = Empty
    /\ users = PostsUsers
    /\ tokens = {create_user_token(i, PostsUsers[i]) : i \in DOMAIN PostsUsers}
    /\ categories = insert_one(Empty, Len(PostsUsers) + 1, [name |-> "General", is_active |-> TRUE])
    /\ oid = Len(PostsUsers) + 1

\* identifiers a request may carry: malformed, existing, or naming nothing
DocIds == {BadId} \cup ((Len(PostsUsers) + 2) .. (Len(PostsUsers) + 1 + MaxDocs + 1))
\* the requests drawn here carry no category_id
PostCategoryIds == {}

NextPosts ==
    \/ \E d \in PostCreates(PostCategoryIds) : create_post(NoToken, d)
    \/ \E t \in tokens, i \in DocIds, d \in PostUpdates(PostCategoryIds) : update_post(t, i, d)
    \/ \E t \in tokens, i \in DocIds : delete_post(t, i)
    \/ \E t \in tokens, i \in DocIds, b \in BOOLEAN : publish_post(t, i, b)
    \/ \E i \in DocIds, a \in Authors, q \in DocIds \cup {NoId} :
          CanAllocate /\ create_comment(NoToken, i, a, NoStr, q)
    \/ \E i \in {NoId, BadId, Len(PostsUsers) + 1} : get_all_posts(i)
    \/ \E t \in tokens \cup {NoToken}, i \in DocIds : get_post(t, i)

SpecPosts == InitPosts /\ [][NextPosts]_vars

\* C1: for every post p and every caller who is neither p's author nor an
\* admin, update_post, publish_post and delete_post are denied with 403 and
\* leave p and its comments unchanged.
C1_NonOwnerDenied ==
    [][(/\ resp'.op \in {"update_post", "publish_post", "delete_post"}
        /\ resp'.id \in DOMAIN posts
        /\ resp'.tok \in tokens
        /\ not_author_nor_admin(resp'.tok, posts[resp'.id]))
       => (resp'.status = 403 /\ UNCHANGED <<posts, comments>>)]_vars

SocketUsers == <<Member("ana"), Member("ben")>>

MeetingRoom == new_call("room", 1, "meeting", {})

InitSocket ==
    /\ InitCommon
    /\ video_calls = insert_one(Empty, Len(SocketUsers) + 1, MeetingRoom)
    /\ users = SocketUsers
    /\ tokens = {}
    /\ categories = Empty
    /\ oid = Len(SocketUsers) + 1

SocketUserIds == DOMAIN SocketUsers
SocketCallIds == {Len(SocketUsers) + 1, Len(SocketUsers) + 2}
Payloads == {"sdp"}

OnlineData == {[id |-> i, name |-> n, role |-> r] :
                 i \in SocketUserIds, n \in {"ana", NoStr}, r \in Roles}
JoinData == {[callId |-> c, userId |-> u, username |-> SocketUsers[u].name] :
                c \in SocketCallIds, u \in SocketUserIds}
LeaveData == {[callId |-> c, userId |-> u] : c \in SocketCallIds, u \in SocketUserIds}
RelayData == [callId : SocketCallIds, payload : Payloads, fromUserId : SocketUserIds,
              targetUserId : SocketUserIds]

\* presence events only
NextOnline ==
    \/ \E sid \in Sids : disconnect(sid)
    \/ \E sid \in Sids, d \in OnlineData : user_online(sid, d)
    \/ \E sid \in Sids, u \in SocketUserIds : user_offline(sid, u)

SpecOnline == InitSocket /\ [][NextOnline]_vars

\* call events only
NextSocket ==
    \/ \E sid \in Sids : disconnect(sid)
    \/ \E sid \in Sids, d \in JoinData : join_webrtc_room(sid, d)
    \/ \E sid \in Sids, d \in JoinData : join_webrtc_call(sid, d)
    \/ \E sid \in Sids, d \in LeaveData : leave_webrtc_room(sid, d)
    \/ \E sid \in Sids, d \in LeaveData : leave_webrtc_call(sid, d)
    \/ \E sid \in Sids, d \in RelayData : webrtc_offer(sid, d)
    \/ \E sid \in Sids, d \in RelayData : webrtc_answer(sid, d)
    \/ \E sid \in Sids, d \in RelayData : webrtc_ice_candidate(sid, d)

SpecSocket == InitSocket /\ [][NextSocket]_vars

RelayOps == {"webrtc_offer", "webrtc_answer", "webrtc_ice_candidate"}

\* the sockets registered in active_video_calls for the call and the target
\* user of the relayed message
registered_for(call_id, user_id) ==
    {active_video_calls[i].sid : i \in
        {j \in DOMAIN active_video_calls :
            /\ active_video_calls[j].call_id = call_id
            /\ active_video_calls[j].user_id = user_id}}

\* C7: webrtc_offer, webrtc_answer and webrtc_ice_candidate forward the
\* payload with fromUserId to exactly one socket, one that is registered in
\* active_video_calls for the pair (callId, targetUserId); when no socket is
\* registered for the pair nothing is emitted, and no socket registered for
\* another user or another call receives the message.
C7_RelayReachesOnlyTheTarget ==
    resp.op \in RelayOps =>
        LET reg == registered_for(resp.data.callId, resp.data.targetUserId)
        IN  IF reg = {}
            THEN emitted = {}
            ELSE \E s \in reg :
                    emitted = {Emit(resp.op, s, NoId, NoSid, resp.data.payload,
                                    resp.data.fromUserId)}

\* a relay that reached its target while another socket is registered for
\* the same user in the other call
C7_Witness ==
    /\ resp.op \in RelayOps
    /\ emitted # {}
    /\ \E i \in DOMAIN active_video_calls :
          /\ active_video_calls[i].user_id = resp.data.targetUserId
          /\ active_video_calls[i].call_id # resp.data.callId

\* C8: after disconnect(sid) no entry of online_users has socket_id = sid,
\* whatever user_online events came before on whatever sockets.
C8_NoEntryOfDisconnectedSocket ==
    resp.op = "disconnect" =>
        \A i \in DOMAIN online_users : online_users[i].socket_id # resp.sid

(***************************************************************************)
(* The chat: one administrator with Telegram configured, one member.       *)
(***************************************************************************)
TelegramUser(user, telegram_id) ==
    [email |-> user.email, name |-> user.name, password_hash |-> user.password_hash,
     role |-> user.role, is_active |-> user.is_active, last_seen |-> user.last_seen,
     telegram_id |-> telegram_id, telegram_enabled |-> telegram_id # NoStr,
     telegram_admin_notifications |-> telegram_id # NoStr]

ChatUsers == <<TelegramUser(AdminUser, "tg-admin"), TelegramUser(Member("ana"), NoStr)>>

InitChat ==
    /\ InitCommon
    /\ video_calls = Empty
    /\ users = ChatUsers
    /\ tokens = {}
    /\ categories = Empty
    /\ oid = Len(ChatUsers)

ChatData == {[user |-> "ana", message |-> "hola"]}

NextChat ==
    \/ Tick
    \/ \E sid \in Sids, d \in ChatData : send_message(sid, d)

SpecChat == InitChat /\ [][NextChat]_vars

\* C5: a send_message event triggers an admin chat notification only if it
\* is the first chat message since the server started or more than 2 hours
\* have passed since the previous chat message; a message within 2 hours of
\* the previous chat message never triggers a notification.
C5_NotifyOnlyAfterQuietPeriod ==
    [][(resp'.op = "send_message" /\ resp'.notify)
          => (prev_message_at = NoTime \/ now - prev_message_at > NOTIFY_AFTER_HOURS)]_vars

(***************************************************************************)
(* The handlers that take an identifier: two signed-in users, one          *)
(* category, and at most MaxDocs calls, polls and files.                   *)
(***************************************************************************)
CallsUsers == <<AdminUser, Member("ana")>>

InitCalls ==
    /\ InitCommon
    /\ video_calls = Empty
    /\ users = CallsUsers
    /\ tokens = {create_user_token(i, CallsUsers[i]) : i \in DOMAIN CallsUsers}
    /\ categories = insert_one(Empty, Len(CallsUsers) + 1,
                               [name |-> "General", is_active |-> TRUE])
    /\ oid = Len(CallsUsers) + 1

\* malformed, and the identifiers that can be allocated
CallIds == {BadId} \cup ((Len(CallsUsers) + 2) .. (Len(CallsUsers) + 1 + MaxDocs))

\* video calls and meeting rooms
NextCalls ==
    \/ \E t \in tokens, i \in CallIds : generate_agora_token(t, i)
    \/ \E t \in tokens, inv \in {{}, {2}} : create_video_call(t, "private", inv)
    \/ \E t \in tokens : create_meeting_room(t)
    \/ \E t \in tokens, i \in CallIds : join_video_call(t, i)
    \/ \E t \in tokens, i \in CallIds : leave_video_call(t, i)
    \/ \E t \in tokens, i \in CallIds : delete_meeting_room(t, i)
    \/ \E i \in CallIds, d \in {u \in PostUpdates({}) : u.title = NoStr} :
          update_post(NoToken, i, d)

\* polls and files
NextFiles ==
    \/ \E t \in tokens : create_doodle(t, "t1")
    \/ \E t \in tokens, i \in CallIds : get_doodle(t, i)
    \/ \E i \in {NoId, Len(CallsUsers) + 1} \cup CallIds : upload_file(NoToken, "ana", i)

SpecFiles == InitCalls /\ [][NextFiles]_vars

SpecCalls == InitCalls /\ [][NextCalls]_vars

\* the handlers of these specifications that take an identifier, and the
\* collection each one addresses
ByIdOps == {"generate_agora_token", "join_video_call", "leave_video_call",
            "delete_meeting_room", "get_doodle", "update_post"}

addressed(op) ==
    IF op = "update_post" THEN posts
    ELSE IF op = "get_doodle" THEN doodle_polls
    ELSE video_calls

\* C9: every request handler that takes a resource identifier (the category
\* id of an upload included) answers a malformed identifier with 400 and
\* changes no stored state.
C9_MalformedIdIs400 ==
    [][(resp'.op \in ByIdOps \cup {"upload_file"} /\ resp'.id = BadId)
          => (resp'.status = 400 /\ UNCHANGED dbVars)]_vars

\* C10: every operation addressed to a well-formed identifier that names no
\* existing resource answers 404 and creates or changes no stored state; in
\* particular update_post, generate_agora_token and leave_video_call.
C10_UnknownIdIs404 ==
    [][(/\ resp'.op \in ByIdOps
        /\ ObjectId_is_valid(resp'.id)
        /\ resp'.id \notin DOMAIN addressed(resp'.op))
          => (resp'.status = 404 /\ UNCHANGED dbVars)]_vars

(***************************************************************************)
(* The backup scheduler.  The fair specification assumes what asyncio      *)
(* provides: a sleep that is due returns, and create_backup comes back.    *)
(***************************************************************************)
InitScheduler ==
    /\ InitQuiet
    /\ scheduler \in {SchedulerService(e, c) : e \in BOOLEAN, c \in BOOLEAN}
    /\ video_calls = Empty
    /\ users = <<AdminUser>>
    /\ tokens = {}
    /\ categories = Empty
    /\ oid = 1

NextScheduler ==
    \/ scheduler_start
    \/ scheduler_stop
    \/ initial_sleep_done
    \/ \E r \in BackupResults : backup_done(r)
    \/ minute_sleep_done

SpecScheduler == InitScheduler /\ [][NextScheduler]_vars

SpecSchedulerFair ==
    /\ SpecScheduler
    /\ WF_vars(initial_sleep_done)
    /\ WF_vars(\E r \in BackupResults : backup_done(r))
    /\ WF_vars(minute_sleep_done)

BackupFailed == scheduler.last \in {"failed", "raised"}

\* C11: a scheduled backup that fails (create_backup returns success false
\* or raises) does not end the scheduler loop: the scheduler stays running
\* and, unless stop() is called, another backup is attempted after the
\* interval.
C11_FailedBackupKeepsLoop ==
    /\ [][(/\ scheduler.task = "backup"
           /\ scheduler'.last \in {"failed", "raised"}
           /\ scheduler'.task # "cancelled")
            => (scheduler'.running /\ scheduler'.task \in {"wait", "backup"})]_vars
    /\ (BackupFailed /\ scheduler.task = "wait")
          ~> (scheduler.task \in {"backup", "cancelled"})

\* a further attempt has begun after an attempt that raised
C11_Witness ==
    /\ scheduler.last = "raised"
    /\ scheduler.task = "backup"
    /\ scheduler.running
    /\ scheduler.attempts >= 1

(***************************************************************************)
(* Reply notifications: an administrator subscribed to new comments, a     *)
(* member without stored preferences, one who turned reply emails off and  *)
(* one who turned them on; one published post.  Comments come from members *)
(* and from a visitor, with and without an author_email.                   *)
(***************************************************************************)
MaxComments == 3

RepliesUsers == <<("new_comments" :> TRUE) @@ AdminUser,
                  Member("ana"),
                  ("comment_replies" :> FALSE) @@ Member("ben"),
                  ("comment_replies" :> TRUE) @@ Member("cat")>>

SeedPost == [title |-> "t1", author_name |-> "ana", category_id |-> NoId,
             is_published |-> TRUE, published_at |-> 0]

InitReplies ==
    /\ InitIdle
    /\ scheduler = SchedulerService(TRUE, TRUE)
    /\ video_calls = Empty
    /\ categories = Empty
    /\ users = RepliesUsers
    /\ tokens = {create_user_token(i, RepliesUsers[i]) : i \in DOMAIN RepliesUsers}
    /\ posts = insert_one(Empty, Len(RepliesUsers) + 1, SeedPost)
    /\ oid = Len(RepliesUsers) + 1

\* author_name and author_email of the comments drawn
Commenters == {<<"ana", NoStr>>, <<"ana", "ana@x.org">>, <<"ben", "ben@x.org">>,
               <<"cat", "cat@x.org">>, <<"zed", NoStr>>, <<"zed", "zed@x.org">>}

ReplyIds == (Len(RepliesUsers) + 1) .. (Len(RepliesUsers) + MaxComments)

NextReplies ==
    \E i \in {BadId, Len(RepliesUsers) + 1}, a \in Commenters, q \in ReplyIds \cup {NoId} :
        /\ oid < Len(RepliesUsers) + 1 + MaxComments
        /\ create_comment(NoToken, i, a[1], a[2], q)

SpecReplies == InitReplies /\ [][NextReplies]_vars

\* the users a comment's author resolves to: by the comment's author_email,
\* or by its author_name when it carries no email
author_of(comment) ==
    {u \in DOMAIN users :
        IF comment.author_email # NoStr
        THEN users[u].email = comment.author_email
        ELSE users[u].name = comment.author_name /\ users[u].email # NoStr}

\* C12: when a reply r to a parent comment p is created, a reply email to p's
\* author is attempted exactly when p's author resolves to an existing user
\* whose comment_replies preference is not false (absent counts as true) and
\* whose email differs from r's author_email; whichever way it goes,
\* create_comment answers 201 and the reply is stored as submitted.
C12_ReplyEmailExactlyWhenWanted ==
    [][(/\ resp'.op = "create_comment"
        /\ oid' = oid + 1
        /\ comments'[oid'].parent_id # NoId)
       => LET r == comments'[oid']
              p == comments[r.parent_id]
              wanted == {users[u].email : u \in
                            {v \in author_of(p) :
                                /\ ~("comment_replies" \in DOMAIN users[v]
                                        /\ users[v].comment_replies = FALSE)
                                /\ users[v].email # r.author_email}}
              sent == {m.to : m \in {n \in outbox' \ outbox :
                                        n.kind = "comment_reply" /\ n.comment = oid'}}
          IN  /\ sent = wanted
              /\ resp'.status = 201
              /\ r.post_id = resp'.id
              /\ DOMAIN comments' = DOMAIN comments \cup {oid'}]_vars

\* one reply brought an email to a parent author who was found by name, and
\* another, to a comment of the member who turned reply emails off, did not
C12_Witness ==
    \E r1, r2 \in DOMAIN comments :
        /\ comments[r1].parent_id \in DOMAIN comments
        /\ comments[r2].parent_id \in DOMAIN comments
        /\ comments[comments[r1].parent_id].author_name = "ana"
        /\ comments[r1].author_email = "zed@x.org"
        /\ [kind |-> "comment_reply", to |-> "ana@x.org", comment |-> r1] \in outbox
        /\ comments[comments[r2].parent_id].author_email = "ben@x.org"
        /\ \A m \in outbox : ~(m.kind = "comment_reply" /\ m.comment = r2)

(***************************************************************************)
(* Comment threads: comments and replies are added to the one post over    *)
(* time, deleted by their author or an administrator, and listed.          *)
(***************************************************************************)
CommentIds == {BadId} \cup ((Len(RepliesUsers) + 1) .. (Len(RepliesUsers) + 1 + MaxComments))

NextComments ==
    \/ \E q \in CommentIds \cup {NoId} :
          /\ oid < Len(RepliesUsers) + 1 + MaxComments
          /\ create_comment(NoToken, Len(RepliesUsers) + 1, "ana", NoStr, q)
    \/ \E t \in tokens, i \in CommentIds : delete_comment(t, i)
    \/ \E i \in CommentIds : get_comments_for_post(i)
    \/ now < MaxComments /\ Tick

SpecComments == InitReplies /\ [][NextComments]_vars

\* C13: get_comments_for_post(p) returns every stored comment of post p
\* exactly once: the top-level comments in created_at order in the returned
\* list, every reply in the replies list of its parent.
C13_EveryCommentListedOnce ==
    (resp.op = "get_comments_for_post" /\ resp.status = 200)
    => LET roots == resp.out.root_comments
           replies == resp.out.replies
           stored == comments_of_post(resp.id)
       IN  /\ \A c \in stored :
                 IF comments[c].parent_id = NoId
                 THEN \E k \in DOMAIN roots : roots[k] = c
                 ELSE /\ comments[c].parent_id \in DOMAIN replies
                      /\ \E k \in DOMAIN replies[comments[c].parent_id] :
                            replies[comments[c].parent_id][k] = c
           /\ \A j, k \in DOMAIN roots :
                 /\ roots[j] \in stored
                 /\ comments[roots[j]].parent_id = NoId
                 /\ j < k => /\ roots[j] # roots[k]
                             /\ comments[roots[j]].created_at <= comments[roots[k]].created_at
           /\ \A p \in DOMAIN replies : \A j, k \in DOMAIN replies[p] :
                 /\ replies[p][j] \in stored
                 /\ comments[replies[p][j]].parent_id = p
                 /\ j < k => replies[p][j] # replies[p][k]

(***************************************************************************)
(* A comment and the deletion of its post in flight together.              *)
(***************************************************************************)
ProcIds == 1 .. MaxProcs + 1

NextCommentRace ==
    \/ \E i \in {Len(RepliesUsers) + 1}, q \in CommentIds \cup {NoId} :
          create_comment_begin(i, "ana", NoStr, q)
    \/ \E i \in ProcIds \cap DOMAIN procs : create_comment_find_parent(i)
    \/ \E i \in ProcIds \cap DOMAIN procs :
          oid < Len(RepliesUsers) + 1 + MaxComments /\ create_comment_insert(i)
    \/ \E i \in ProcIds \cap DOMAIN procs : create_comment_find_created(i)
    \/ \E t \in tokens, i \in {Len(RepliesUsers) + 1} : delete_post_begin(t, i)
    \/ \E i \in ProcIds \cap DOMAIN procs : delete_post_delete_one(i)
    \/ \E i \in ProcIds \cap DOMAIN procs : delete_post_delete_many(i)

SpecCommentRace == InitReplies /\ [][NextCommentRace]_vars

\* C14: once a create_comment and a delete_post on the same post have both
\* completed, in whatever order their steps were taken, no comment remains
\* whose post_id refers to the deleted post.
C14_NoCommentOfDeletedPost ==
    (\A i \in DOMAIN procs : procs[i].pc = "done")
    => \A i \in DOMAIN procs :
          (procs[i].op = "delete_post" /\ procs[i].status = 204)
          => \A c \in DOMAIN comments : comments[c].post_id # procs[i].post_id

(***************************************************************************)
(* Two administrators' create_user requests in flight together.            *)
(***************************************************************************)
InitUserRace ==
    /\ InitCommon
    /\ video_calls = Empty
    /\ categories = Empty
    /\ users = <<AdminUser, Member("ana")>>
    /\ tokens = {create_user_token(1, AdminUser), create_user_token(2, Member("ana"))}
    /\ oid = 2

NextUserRace ==
    \/ \E t \in tokens, e \in {"ben@x.org", "cat@x.org"}, n \in {"ben", "cat"} :
          create_user_begin(t, e, n, "normal", "admin123")
    \/ \E i \in ProcIds \cap DOMAIN procs : create_user_find_name(i)
    \/ \E i \in ProcIds \cap DOMAIN procs : create_user_insert(i)

SpecUserRace == InitUserRace /\ [][NextUserRace]_vars

\* C15: of two create_user requests with the same name, or the same email,
\* that ran concurrently, at most one succeeds.
C15_SameNameNotBothCreated ==
    \A i, j \in DOMAIN procs :
        (/\ i # j
         /\ procs[i].op = "create_user" /\ procs[j].op = "create_user"
         /\ procs[i].name = procs[j].name \/ procs[i].email = procs[j].email)
        => ~(procs[i].status = 200 /\ procs[j].status = 200)

(***************************************************************************)
(* Categories: posts and files are filed under the one category, moved out *)
(* of it and deleted, and the category is deleted.                         *)
(***************************************************************************)
CategoryIds == {BadId, Len(PostsUsers) + 1, Len(PostsUsers) + 2}

NextCategories ==
    \/ \E d \in PostCreates(CategoryIds) : create_post(NoToken, d)
    \/ \E t \in tokens, i \in DocIds, d \in PostUpdates(CategoryIds) : update_post(t, i, d)
    \/ \E t \in tokens, i \in DocIds : delete_post(t, i)
    \/ \E i \in CategoryIds \cup {NoId} : upload_file(NoToken, "ana", i)
    \/ \E t \in tokens, i \in CategoryIds : delete_category(t, i)

SpecCategories == InitPosts /\ [][NextCategories]_vars

\* C16: every non-null category_id on a post or file refers to an existing
\* category, and a delete_category that succeeded left no post or file that
\* references the deleted category.
C16_CategoryReferencesResolve ==
    /\ \A p \in DOMAIN posts :
          posts[p].category_id # NoId => posts[p].category_id \in DOMAIN categories
    /\ \A f \in DOMAIN files :
          files[f].category_id # NoId => files[f].category_id \in DOMAIN categories
    /\ (resp.op = "delete_category" /\ resp.status = 200)
       => /\ \A p \in DOMAIN posts : posts[p].category_id # resp.id
          /\ \A f \in DOMAIN files : files[f].category_id # resp.id

PrivateCall == new_call("call", 2, "private", {1})

InitPrivate ==
    /\ InitCommon
    /\ users = PostsUsers
    /\ tokens = {create_user_token(i, PostsUsers[i]) : i \in DOMAIN PostsUsers}
    /\ categories = Empty
    /\ video_calls = insert_one(Empty, Len(PostsUsers) + 1, PrivateCall)
    /\ oid = Len(PostsUsers) + 1

PrivateJoinData == {[callId |-> Len(PostsUsers) + 1, userId |-> u,
                     username |-> PostsUsers[u].name] : u \in DOMAIN PostsUsers}

NextPrivate ==
    \/ \E t \in tokens, i \in {BadId, Len(PostsUsers) + 1} : join_video_call(t, i)
    \/ \E t \in tokens, i \in {BadId, Len(PostsUsers) + 1} : leave_video_call(t, i)
    \/ \E sid \in Sids, d \in PrivateJoinData : join_webrtc_room(sid, d)
    \/ \E sid \in Sids, d \in PrivateJoinData : join_webrtc_call(sid, d)

SpecPrivate == InitPrivate /\ [][NextPrivate]_vars

\* C18: every participant of a private call is the call's creator or one of
\* its invited_users.
C18_PrivateCallOnlyInvited ==
    \A c \in DOMAIN video_calls :
        video_calls[c].call_type = "private"
        => \A k \in DOMAIN video_calls[c].participants :
              \/ video_calls[c].participants[k].user_id = video_calls[c].creator_id
              \/ video_calls[c].participants[k].user_id \in video_calls[c].invited_users

(***************************************************************************)
(* Joins, leaves and disconnects of the meeting room in flight together.   *)
(***************************************************************************)
NextRoomRace ==
    \/ \E sid \in Sids, d \in JoinData : join_webrtc_room_begin(sid, d)
    \/ \E sid \in Sids, d \in LeaveData : leave_webrtc_room_begin(sid, d)
    \/ \E sid \in Sids : disconnect_begin(sid)
    \/ \E i \in ProcIds \cap DOMAIN procs : participant_pull(i)
    \/ \E i \in ProcIds \cap DOMAIN procs : participant_add(i)
    \/ \E i \in ProcIds \cap DOMAIN procs : call_find(i)
    \/ \E i \in ProcIds \cap DOMAIN procs : call_reset(i)

SpecRoomRace == InitSocket /\ [][NextRoomRace]_vars

\* C19: once every join_webrtc_room, leave_webrtc_room and disconnect on the
\* call has completed, its status is active exactly when its participants
\* list is non-empty, and waiting with started_at null exactly when it is
\* empty.
C19_StatusFollowsParticipants ==
    (\A i \in DOMAIN procs : procs[i].pc = "done")
    => \A c \in DOMAIN video_calls :
          /\ video_calls[c].status = "active" <=> Len(video_calls[c].participants) > 0
          /\ (video_calls[c].status = "waiting" /\ video_calls[c].started_at = NoTime)
                <=> Len(video_calls[c].participants) = 0

(***************************************************************************)
(* Two meeting rooms and two sockets, each the connection of one user: a   *)
(* socket joins and leaves rooms in its user's name, and disconnects.      *)
(***************************************************************************)
InitRooms ==
    /\ InitCommon
    /\ video_calls = insert_one(insert_one(Empty, Len(SocketUsers) + 1, MeetingRoom),
                                Len(SocketUsers) + 2, MeetingRoom)
    /\ users = SocketUsers
    /\ tokens = {}
    /\ categories = Empty
    /\ oid = Len(SocketUsers) + 2

\* the user behind each socket
socket_user == [sid \in Sids |-> IF sid = "s1" THEN 1 ELSE 2]

NextRooms ==
    \/ \E sid \in Sids : disconnect(sid)
    \/ \E sid \in Sids, c \in SocketCallIds :
          join_webrtc_room(sid, [callId |-> c, userId |-> socket_user[sid],
                                 username |-> SocketUsers[socket_user[sid]].name])
    \/ \E sid \in Sids, c \in SocketCallIds :
          join_webrtc_call(sid, [callId |-> c, userId |-> socket_user[sid],
                                 username |-> SocketUsers[socket_user[sid]].name])
    \/ \E sid \in Sids, c \in SocketCallIds :
          leave_webrtc_room(sid, [callId |-> c, userId |-> socket_user[sid]])

SpecRooms == InitRooms /\ [][NextRooms]_vars

\* C20: when a socket disconnects, its user is in the participants list of
\* no call afterwards (here a user is in a call only through a join of the
\* user's own socket that no leave followed), and every call the disconnect
\* emptied is waiting with started_at null.
C20_DisconnectLeavesEveryCall ==
    [][resp'.op = "disconnect"
       => \A c \in DOMAIN video_calls' :
             /\ \A k \in DOMAIN video_calls'[c].participants :
                   video_calls'[c].participants[k].user_id # socket_user[resp'.sid]
             /\ (/\ Len(video_calls'[c].participants) = 0
                 /\ Len(video_calls[c].participants) > 0)
                => (video_calls'[c].status = "waiting"
                       /\ video_calls'[c].started_at = NoTime)]_vars

(***************************************************************************)
(* A meeting room that ana created: members join and leave it over REST    *)
(* and over the socket, sockets disconnect, and the rooms are listed.      *)
(***************************************************************************)
InitMeeting ==
    /\ InitCommon
    /\ users = PostsUsers
    /\ tokens = {create_user_token(i, PostsUsers[i]) : i \in {2, 3}}
    /\ categories = Empty
    /\ video_calls = insert_one(Empty, Len(PostsUsers) + 1, new_call("room", 2, "meeting", {}))
    /\ oid = Len(PostsUsers) + 1

MeetingJoinData == {[callId |-> Len(PostsUsers) + 1, userId |-> u,
                     username |-> PostsUsers[u].name] : u \in {2, 3}}

NextMeeting ==
    \/ \E t \in tokens : join_video_call(t, Len(PostsUsers) + 1)
    \/ \E t \in tokens : leave_video_call(t, Len(PostsUsers) + 1)
    \/ \E t \in tokens : get_meeting_rooms(t)
    \/ \E sid \in Sids, d \in MeetingJoinData : join_webrtc_room(sid, d)
    \/ \E sid \in Sids, d \in MeetingJoinData :
          leave_webrtc_room(sid, [callId |-> d.callId, userId |-> d.userId])
    \/ \E sid \in Sids, d \in MeetingJoinData :
          leave_webrtc_call(sid, [callId |-> d.callId, userId |-> d.userId])
    \/ \E sid \in Sids : disconnect(sid)

SpecMeeting == InitMeeting /\ [][NextMeeting]_vars

\* C21: a leave (leave_webrtc_room, leave_webrtc_call, disconnect or REST
\* leave_video_call) that takes the last participant out of a meeting room
\* leaves the room waiting, not ended, and the room, which nobody deleted,
\* is in every result of get_meeting_rooms.
C21_EmptiedRoomIsWaiting ==
    /\ [][resp'.op \in {"leave_webrtc_room", "leave_webrtc_call", "disconnect",
                        "leave_video_call"}
          => \A c \in DOMAIN video_calls :
                (/\ video_calls[c].call_type = "meeting"
                 /\ Len(video_calls[c].participants) > 0
                 /\ Len(video_calls'[c].participants) = 0)
                => video_calls'[c].status = "waiting"]_vars
    /\ []((resp.op = "get_meeting_rooms" /\ resp.status = 200)
          => \A c \in DOMAIN video_calls :
                video_calls[c].call_type = "meeting" => c \in resp.out)

\* the joins of the meeting room only, over a short time
MaxJoinTime == 1

NextJoins ==
    \/ \E t \in tokens : join_video_call(t, Len(PostsUsers) + 1)
    \/ \E sid \in Sids, d \in MeetingJoinData : join_webrtc_room(sid, d)
    \/ \E sid \in Sids, d \in MeetingJoinData : join_webrtc_call(sid, d)
    \/ now < MaxJoinTime /\ Tick

SpecJoins == InitMeeting /\ [][NextJoins]_vars

\* C23: a user appears at most once in a call's participants list, whatever
\* joins (REST join_video_call, socket join_webrtc_room and join_webrtc_call)
\* the user made on the call.
C23_ParticipantOnce ==
    \A c \in DOMAIN video_calls :
        \A j, k \in DOMAIN video_calls[c].participants :
            j # k => video_calls[c].participants[j].user_id
                        # video_calls[c].participants[k].user_id

(***************************************************************************)
(* Deletions of the meeting room in flight while members join and leave.   *)
(***************************************************************************)
NextRoomDelete ==
    \/ \E t \in tokens, i \in {BadId, Len(PostsUsers) + 1} : delete_meeting_room_begin(t, i)
    \/ \E i \in ProcIds \cap DOMAIN procs : delete_meeting_room_delete_one(i)
    \/ \E t \in tokens : join_video_call(t, Len(PostsUsers) + 1)
    \/ \E t \in tokens : leave_video_call(t, Len(PostsUsers) + 1)
    \/ \E sid \in Sids, d \in MeetingJoinData : join_webrtc_room(sid, d)

SpecRoomDelete == InitMeeting /\ [][NextRoomDelete]_vars

\* C22: a room document is removed only by a delete_meeting_room of its
\* creator and only while its participants list is empty at that moment; a
\* delete answered 403 or 400 leaves the rooms unchanged.
C22_DeletedRoomWasEmpty ==
    /\ [][\A c \in DOMAIN video_calls :
             c \notin DOMAIN video_calls'
             => /\ resp'.op = "delete_meeting_room"
                /\ resp'.status = 200
                /\ resp'.tok.user_id = video_calls[c].creator_id
                /\ Len(video_calls[c].participants) = 0]_vars
    /\ [][(resp'.op = "delete_meeting_room" /\ resp'.status \in {400, 403})
          => UNCHANGED video_calls]_vars

(***************************************************************************)
(* A poll that ana created, with a deadline at the start of time: members  *)
(* respond (requests overlap), the creator closes and deletes it, and the  *)
(* polls are listed.                                                       *)
(***************************************************************************)
InitDoodle ==
    /\ InitBare
    /\ posts = Empty
    /\ scheduler = SchedulerService(TRUE, TRUE)
    /\ users = PostsUsers
    /\ tokens = {create_user_token(i, PostsUsers[i]) : i \in {2, 3}}
    /\ categories = Empty
    /\ video_calls = Empty
    /\ doodle_polls = insert_one(Empty, Len(PostsUsers) + 1,
                         new_doodle(create_user_token(2, PostsUsers[2]), "picnic", 0))
    /\ oid = Len(PostsUsers) + 1

\* response_data.responses: an answer to option o1, or to an unknown option
DoodleAnswers == {"o1" :> "yes", "o1" :> "no", "zz" :> "yes"}

NextDoodle ==
    \/ \E t \in tokens, r \in DoodleAnswers :
          respond_to_doodle_begin(t, Len(PostsUsers) + 1, r)
    \/ \E i \in ProcIds \cap DOMAIN procs : respond_to_doodle_pull(i)
    \/ \E i \in ProcIds \cap DOMAIN procs : respond_to_doodle_push(i)
    \/ \E t \in tokens, o \in DoodleOptions \cup {"zz"} :
          close_doodle(t, Len(PostsUsers) + 1, o)
    \/ \E t \in tokens : delete_doodle(t, Len(PostsUsers) + 1)
    \/ \E t \in tokens : get_doodles(t)
    \/ now < MaxJoinTime /\ Tick

SpecDoodle == InitDoodle /\ [][NextDoodle]_vars

\* C24: when a respond_to_doodle is answered 200, the poll's responses hold
\* exactly one entry of that user, and it is the entry this request wrote,
\* also when requests of the same user overlap.
C24_OneResponsePerUser ==
    [][(/\ resp'.op = "respond_to_doodle"
        /\ resp'.status = 200
        /\ resp' # resp)
       => LET responses == doodle_polls'[resp'.id].responses
          IN  /\ Cardinality({k \in DOMAIN responses :
                                 responses[k].user_id = resp'.tok.user_id}) = 1
              /\ responses[Len(responses)] \in resp'.out]_vars

\* C25: close_doodle is answered 200 only to the poll's creator and only
\* with a final_option among the poll's option ids; a poll whose status is
\* closed keeps its status, final_option, closed_at and responses for as
\* long as it exists.
C25_ClosedPollFrozen ==
    /\ [][(resp'.op = "close_doodle" /\ resp'.status = 200 /\ resp' # resp)
          => /\ resp'.id \in DOMAIN doodle_polls
             /\ doodle_polls[resp'.id].creator_id = resp'.tok.user_id
             /\ doodle_polls'[resp'.id].final_option \in doodle_polls[resp'.id].options]_vars
    /\ [][\A d \in DOMAIN doodle_polls \cap DOMAIN doodle_polls' :
             doodle_polls[d].status = "closed"
             => /\ doodle_polls'[d].status = doodle_polls[d].status
                /\ doodle_polls'[d].final_option = doodle_polls[d].final_option
                /\ doodle_polls'[d].closed_at = doodle_polls[d].closed_at
                /\ doodle_polls'[d].responses = doodle_polls[d].responses]_vars

(***************************************************************************)
(* start() and stop() are called while earlier calls and the tasks they    *)
(* made are at their awaits.                                               *)
(***************************************************************************)
InitStartStop ==
    /\ InitQuiet
    /\ scheduler \in {[SchedulerService(e, TRUE) EXCEPT !.task = 0] : e \in BOOLEAN}
    /\ video_calls = Empty
    /\ users = <<AdminUser>>
    /\ tokens = {}
    /\ categories = Empty
    /\ oid = 1

NextStartStop ==
    \/ Len(procs) <= MaxProcs /\ start
    \/ Len(procs) <= MaxProcs /\ stop_begin
    \/ \E i \in ProcIds \cap DOMAIN procs : stop_await_task(i)
    \/ \E i \in ProcIds \cap DOMAIN procs : scheduler_loop_step(i)
    \/ \E i \in ProcIds \cap DOMAIN procs : scheduler_loop_cancelled(i)

SpecStartStop == InitStartStop /\ [][NextStartStop]_vars

\* the tasks of _scheduler_loop that are not done
AliveLoops == {i \in DOMAIN procs : procs[i].op = "_scheduler_loop" /\ procs[i].pc # "done"}

\* C26: at most one _scheduler_loop task is alive at any time, and while no
\* stop() is at its await (start() has none) the running flag is true
\* exactly when a loop task is alive.
C26_OneLoopAndFlagAgree ==
    /\ Cardinality(AliveLoops) <= 1
    /\ (\A i \in DOMAIN procs : procs[i].op = "stop" => procs[i].pc = "done")
       => (scheduler.running <=> AliveLoops # {})

(***************************************************************************)
(* The cleanup of offline users, checked under SpecPresence.               *)
(***************************************************************************)

\* C27: a cleanup_offline_users that is answered leaves last_seen of every
\* user seen within the last 5 minutes unchanged, such a user, when active,
\* is still among the online users afterwards, and the count it returns is
\* the number of users whose last_seen it removed.
C27_CleanupKeepsRecent ==
    [][(resp'.op = "cleanup_offline_users" /\ resp'.status = 200)
       => /\ \A i \in DOMAIN users :
                (/\ users[i].last_seen # NoTime
                 /\ users[i].last_seen >= now - ONLINE_THRESHOLD_MINUTES)
                => /\ users'[i].last_seen = users[i].last_seen
                   /\ users[i].is_active
                         => (/\ users'[i].last_seen # NoTime
                             /\ users'[i].last_seen >= now' - ONLINE_THRESHOLD_MINUTES
                             /\ users'[i].is_active)
          /\ resp'.count = Cardinality({i \in DOMAIN users :
                                           users'[i].last_seen # users[i].last_seen})]_vars

====
